---------------------------- MODULE Spec2Model ----------------------------
(***************************************************************************)
(* A model of the ascii-telnet-server: the Telnet byte filter of the       *)
(* request handler (ascii_server.py), the run-length compression of a      *)
(* Movie (ascii_movie.py) and the per-connection session of                *)
(* TelnetRequestHandler.handle.                                            *)
(*                                                                         *)
(* Python values are represented as follows: bytes is a sequence of        *)
(* integers 0..255, str is a sequence of Unicode code points, None is the  *)
(* value NoByte where a byte is expected.                                  *)
(***************************************************************************)
EXTENDS Integers, Sequences, FiniteSets, TLC

VARIABLES
    \* get_text_from_raw_bytes: one call of the filter on one chunk
    bytes_in,          \* the argument
    scan_pos,          \* how many bytes of bytes_in the loop has consumed
    last_byte,         \* ascii_server.py:191
    real_text_bytes,   \* ascii_server.py:192
    decoded,           \* the returned str, NotReturned until the call returns
    prior_last_byte,   \* last_byte as the call before this one left it
    \* Movie
    frames,            \* Movie.frames: a list of Frame objects
    loaded_frames,     \* the frame list before the first compress()
    before_compress,   \* the frame list before the latest compress()
    compress_calls,    \* how many compress() calls have returned
    movie_error,       \* the exception a Movie method raised, "" if none
    loaded,            \* Movie._loaded
    load_result,       \* what the latest load() returned, "" before any return
    load_calls,        \* how many load() calls were made
    dimensions,        \* Movie's screen and frame sizes and its margins
    \* one connection: TelnetRequestHandler.handle and what it calls
    dialogue_options,  \* the class attribute: NoDialogue (None) or a Dialogue
    pc,                \* the statement of the handler that runs next
    phase,             \* the call of handle() that is on the stack
    peer_gone,         \* the peer closed the connection: writes raise EPIPE
    io_log,            \* the writes to wfile and the sleeps, in order
    rfile,             \* the bytes the peer sent in reply to "Are you a human?"
    response,          \* verify_is_human's local `response`
    second,            \* prepare_for_screen_size's loop variable
    conversation,      \* the name Dialogue.run was called with
    node,              \* the value _resolve_conversation_value is resolving
    answers,           \* the (prompt, input) pairs of the Prompts resolved so far
    results,           \* what Dialogue.run returned
    repeats,           \* how often Prompt.run re-ran itself in this session
    visitor,           \* handle's local `visitor`
    adventure_runs,    \* iterations of run_adventure's loop
    notified,          \* the notifications handed to notify()
    frame_pos,         \* the player's position in movie.frames
    player_stopped,    \* player.stop() was called
    outcome,           \* how handle() ended, "" while it runs
    \* one call of TelnetRequestHandler.output
    out_text,          \* the argument
    return_at_end,     \* the argument
    pager_pc,          \* the statement of output() that runs next
    lines,             \* _output_long_text's local `lines`
    window,            \* _output_long_text's local `window`
    current_index,     \* _output_long_text's local `current_index`, from 0
    written,           \* what output() wrote and prompted for, in order
    \* one TimeBar
    time_bar,          \* its length, duration and internal_length
    bar_frame,         \* the frame number get_timebar is called with next
    marker_log,        \* per frame number drawn: get_marker_postion's value
                       \* and the marker_pos get_timebar drew
    \* one call of Movie.splice_in_text
    subtitles,         \* the lines of the text file
    seconds_per_slide, \* the argument
    line_pos,          \* the lines of the file read so far
    frame_iterator,    \* the frames that frame_iterator has given out
    splice_log,        \* per line spliced: the seconds it was given and the
                       \* frames it was added to
    splice_error,      \* the exception that ended splice_in_text, "" if none
    \* the handlers of a ThreadedTCPServer
    workers            \* per connection: where its handle() is, its phase,
                       \* what it wrote, whether its peer is gone

filterVars == <<bytes_in, scan_pos, last_byte, real_text_bytes, decoded,
               prior_last_byte>>
loadVars == <<loaded, load_result, load_calls, dimensions>>
movieVars == <<frames, loaded_frames, before_compress, compress_calls, movie_error,
               loadVars>>
dialogueVars == <<conversation, node, answers, results, repeats>>
sessionVars == <<dialogue_options, pc, phase, peer_gone, io_log, rfile, response, second,
                 dialogueVars, visitor, adventure_runs, notified, frame_pos,
                 player_stopped, outcome>>
pagerVars == <<out_text, return_at_end, pager_pc, lines, window, current_index,
               written>>
timeBarVars == <<time_bar, bar_frame, marker_log>>
spliceVars == <<subtitles, seconds_per_slide, line_pos, frame_iterator, splice_log,
                splice_error>>
serverVars == <<workers>>
vars == <<filterVars, movieVars, sessionVars, pagerVars, timeBarVars, spliceVars,
         serverVars>>

(***************************************************************************)
(* Telnet command codes, ascii_server.py:53-70.                            *)
(***************************************************************************)
IAC == 255
DONT == 254
DO == 253
WONT == 252
WILL == 251
SE == 240
NOP == 241
SB == 250
NAWS == 31

\* last_byte = None (ascii_server.py:191): no byte scanned yet.
NoByte == -1

(***************************************************************************)
(* Bounds of the model.                                                    *)
(***************************************************************************)
\* Longest input chunk enumerated for the filter.
MaxChunkLen == 4

\* The longest chunk enumerated for a call that follows another call.
MaxNextChunkLen == 2

\* All sequences over S of length at most n.
BoundedSeq(S, n) == UNION {[1..k -> S] : k \in 0..n}

\* The first position of byte b in bs at or after position i, 0 if none.
FirstAt(bs, b, i) ==
    IF \E j \in i..Len(bs) : bs[j] = b
      THEN CHOOSE j \in i..Len(bs) : bs[j] = b /\ \A k \in i..(j - 1) : bs[k] # b
      ELSE 0

\* The smallest element of a non-empty set of integers, and the set in
\* increasing order.
Min(S) == CHOOSE m \in S : \A x \in S : m <= x

RECURSIVE SortedSeq(_)
SortedSeq(S) == IF S = {} THEN <<>> ELSE <<Min(S)>> \o SortedSeq(S \ {Min(S)})

\* ord(c) for the characters the model's texts use.
LowerLetters == <<"a", "b", "c", "d", "e", "f", "g", "h", "i", "j", "k", "l", "m",
                  "n", "o", "p", "q", "r", "s", "t", "u", "v", "w", "x", "y", "z">>
UpperLetters == <<"A", "B", "C", "D", "E", "F", "G", "H", "I", "J", "K", "L", "M",
                  "N", "O", "P", "Q", "R", "S", "T", "U", "V", "W", "X", "Y", "Z">>

Ord(c) ==
    IF \E i \in 1..26 : LowerLetters[i] = c
      THEN 96 + (CHOOSE i \in 1..26 : LowerLetters[i] = c)
    ELSE IF \E i \in 1..26 : UpperLetters[i] = c
      THEN 64 + (CHOOSE i \in 1..26 : UpperLetters[i] = c)
    ELSE CASE c = " " -> 32 [] c = "\n" -> 10 [] c = "\r" -> 13

\* A Python str literal, as its sequence of code points.
Str(cs) == [i \in 1..Len(cs) |-> Ord(cs[i])]

(***************************************************************************)
(* TelnetRequestHandler.get_text_from_raw_bytes, ascii_server.py:189-208.  *)
(* The scan keeps (last_byte, real_text_bytes); one loop iteration is      *)
(* ScanByte.  The branch of line 196-197 is a `continue`: it skips the     *)
(* assignment of line 204, so last_byte stays SB inside a subnegotiation.  *)
(***************************************************************************)
ScanByteReordered(st, b) ==
    IF st.last_byte = SB /\ b = SE
      THEN [last_byte |-> b, real_text_bytes |-> st.real_text_bytes]
    ELSE IF st.last_byte = SB
      THEN st
    ELSE IF st.last_byte \in {IAC, WILL, WONT, DO, DONT}
      THEN [last_byte |-> b, real_text_bytes |-> st.real_text_bytes]
    ELSE IF 240 <= b /\ b <= 255
      THEN [last_byte |-> b, real_text_bytes |-> st.real_text_bytes]
    ELSE [last_byte |-> b, real_text_bytes |-> <<b>> \o st.real_text_bytes]

ScanByteOptionContinue(st, b) ==
    IF st.last_byte = SB /\ b = SE
      THEN [last_byte |-> b, real_text_bytes |-> st.real_text_bytes]
    ELSE IF st.last_byte = SB
      THEN st
    ELSE IF st.last_byte \in {IAC, WILL, WONT, DO, DONT}
      THEN st
    ELSE IF 240 <= b /\ b <= 255
      THEN [last_byte |-> b, real_text_bytes |-> st.real_text_bytes]
    ELSE [last_byte |-> b, real_text_bytes |-> Append(st.real_text_bytes, b)]

ScanByteWithoutWont(st, b) ==
    IF st.last_byte = SB /\ b = SE
      THEN [last_byte |-> b, real_text_bytes |-> st.real_text_bytes]
    ELSE IF st.last_byte = SB
      THEN st
    ELSE IF st.last_byte \in {IAC, WILL, DO, DONT}
      THEN [last_byte |-> b, real_text_bytes |-> st.real_text_bytes]
    ELSE IF 240 <= b /\ b <= 255
      THEN [last_byte |-> b, real_text_bytes |-> st.real_text_bytes]
    ELSE [last_byte |-> b, real_text_bytes |-> Append(st.real_text_bytes, b)]

ScanByteSpanPass(st, b) ==
    IF st.last_byte = SB /\ b = SE
      THEN [last_byte |-> b, real_text_bytes |-> st.real_text_bytes]
    ELSE IF st.last_byte = SB
      THEN [last_byte |-> b, real_text_bytes |-> st.real_text_bytes]
    ELSE IF st.last_byte \in {IAC, WILL, WONT, DO, DONT}
      THEN [last_byte |-> b, real_text_bytes |-> st.real_text_bytes]
    ELSE IF 240 <= b /\ b <= 255
      THEN [last_byte |-> b, real_text_bytes |-> st.real_text_bytes]
    ELSE [last_byte |-> b, real_text_bytes |-> Append(st.real_text_bytes, b)]

ScanByteKeptWithoutUpdate(st, b) ==
    IF st.last_byte = SB /\ b = SE
      THEN [last_byte |-> b, real_text_bytes |-> st.real_text_bytes]
    ELSE IF st.last_byte = SB
      THEN st
    ELSE IF st.last_byte \in {IAC, WILL, WONT, DO, DONT}
      THEN [last_byte |-> b, real_text_bytes |-> st.real_text_bytes]
    ELSE IF 240 <= b /\ b <= 255
      THEN [last_byte |-> b, real_text_bytes |-> st.real_text_bytes]
    ELSE [last_byte |-> st.last_byte,
          real_text_bytes |-> Append(st.real_text_bytes, b)]

ScanByteKeepsSpanEnd(st, b) ==
    IF st.last_byte = SB /\ b = SE
      THEN [last_byte |-> b, real_text_bytes |-> Append(st.real_text_bytes, b)]
    ELSE IF st.last_byte = SB
      THEN st
    ELSE IF st.last_byte \in {IAC, WILL, WONT, DO, DONT}
      THEN [last_byte |-> b, real_text_bytes |-> st.real_text_bytes]
    ELSE IF 240 <= b /\ b <= 255
      THEN [last_byte |-> b, real_text_bytes |-> st.real_text_bytes]
    ELSE [last_byte |-> b, real_text_bytes |-> Append(st.real_text_bytes, b)]

ScanByte(st, b) ==
    IF st.last_byte = SB /\ b = SE
      THEN [last_byte |-> b, real_text_bytes |-> st.real_text_bytes]
    ELSE IF st.last_byte = SB
      THEN st
    ELSE IF st.last_byte \in {IAC, WILL, WONT, DO, DONT}
      THEN [last_byte |-> b, real_text_bytes |-> st.real_text_bytes]
    ELSE IF 240 <= b /\ b <= 255
      THEN [last_byte |-> b, real_text_bytes |-> st.real_text_bytes]
    ELSE [last_byte |-> b, real_text_bytes |-> Append(st.real_text_bytes, b)]

\* The state of the scan before the first byte, ascii_server.py:191-192.
ScanStart == [last_byte |-> NoByte, real_text_bytes |-> <<>>]

\* The locals of a call that begins after a call that ended with the locals
\* `ended`: last_byte and real_text_bytes are local variables, assigned anew
\* at lines 191-192 of every call.
CallLocalsCarried(ended) ==
    [last_byte |-> ended.last_byte, real_text_bytes |-> <<>>]

CallLocals(ended) == ScanStart

\* bytes.decode('ISO-8859-1'): byte b becomes the character of code point b.
DecodeLatin1(bs) == [i \in 1..Len(bs) |-> bs[i]]

\* The whole function: the loop over bytes_in, then the decoding.
RECURSIVE ScanAll(_, _)
ScanAll(st, bs) ==
    IF bs = <<>> THEN st ELSE ScanAll(ScanByte(st, Head(bs)), Tail(bs))

get_text_from_raw_bytes(bs) ==
    DecodeLatin1(ScanAll(ScanStart, bs).real_text_bytes)

\* The value of `decoded` while the call has not returned.
NotReturned == <<NoByte>>

\* The bytes the enumerated chunks are made of: text (1 is a control
\* character that is no command), and the command bytes SE, NOP, SB, WONT, IAC.
FilterBytes == {1, 65, 66, 73, SE, NOP, SB, WONT, IAC}

\* The chunk of the specification's end-to-end example.
ExampleChunk == <<73, 252, 1, 65, 66>>

Chunks == BoundedSeq(FilterBytes, MaxChunkLen) \cup {ExampleChunk}

FilterIdle ==
    /\ bytes_in = <<>>
    /\ scan_pos = 0
    /\ last_byte = NoByte
    /\ real_text_bytes = <<>>
    /\ decoded = NotReturned
    /\ prior_last_byte = NoByte

\* A call get_text_from_raw_bytes(chunk): lines 191-192.
FilterInit ==
    /\ bytes_in \in Chunks
    /\ scan_pos = 0
    /\ last_byte = ScanStart.last_byte
    /\ real_text_bytes = ScanStart.real_text_bytes
    /\ decoded = NotReturned
    /\ prior_last_byte = NoByte

\* One iteration of the for loop, lines 193-204.
FilterScan ==
    /\ decoded = NotReturned
    /\ scan_pos < Len(bytes_in)
    /\ LET st == ScanByte([last_byte |-> last_byte,
                           real_text_bytes |-> real_text_bytes],
                          bytes_in[scan_pos + 1])
       IN /\ last_byte' = st.last_byte
          /\ real_text_bytes' = st.real_text_bytes
    /\ scan_pos' = scan_pos + 1
    /\ UNCHANGED <<bytes_in, decoded, prior_last_byte>>
    /\ UNCHANGED <<movieVars, sessionVars, pagerVars, timeBarVars, spliceVars, serverVars>>

\* After the loop: lines 206-208.
FilterReturn ==
    /\ decoded = NotReturned
    /\ scan_pos = Len(bytes_in)
    /\ decoded' = DecodeLatin1(real_text_bytes)
    /\ UNCHANGED <<bytes_in, scan_pos, last_byte, real_text_bytes, prior_last_byte>>
    /\ UNCHANGED <<movieVars, sessionVars, pagerVars, timeBarVars, spliceVars, serverVars>>

\* The chunks enumerated for a call that follows another call.
NextChunks == BoundedSeq({65, SE, IAC}, MaxNextChunkLen)

\* prompt(), lines 185-186, called once more: the next chunk read from the
\* connection is handed to a new call of get_text_from_raw_bytes.
FilterCallAgain ==
    /\ decoded # NotReturned
    /\ bytes_in' \in NextChunks
    /\ scan_pos' = 0
    /\ \E locals \in {CallLocals([last_byte |-> last_byte,
                                   real_text_bytes |-> real_text_bytes])} :
         /\ last_byte' = locals.last_byte
         /\ real_text_bytes' = locals.real_text_bytes
    /\ decoded' = NotReturned
    /\ prior_last_byte' = last_byte
    /\ UNCHANGED <<movieVars, sessionVars, pagerVars, timeBarVars, spliceVars, serverVars>>

FilterNext == FilterScan \/ FilterReturn \/ FilterCallAgain

(***************************************************************************)
(* Movie, ascii_movie.py:150-337.  A Frame object is a record of its data  *)
(* (the list of its lines) and its display_time; the frames of a list are  *)
(* distinct objects, as every loader creates a new Frame per frame.        *)
(***************************************************************************)
\* Most frames of an enumerated movie, and the longest display time.
MaxFrames == 4
MaxDisplayTime == 2

\* The line lists the enumerated frames hold.
FrameData == {<<"x">>, <<"y">>, <<"x", "y">>}

Frame(data, display_time) == [data |-> data, display_time |-> display_time]

\* Frame.__eq__, ascii_movie.py:74-77: frames are equal when their data are.
FrameEq(f, g) == f.data = g.data

\* The loop of Movie.compress, ascii_movie.py:324-333.  current_frame is the
\* last object appended to new_frames, so line 329 changes new_frames[-1];
\* it is None (has_current = FALSE) before the first iteration.
RECURSIVE CompressLoop(_, _, _)
CompressLoop(fs, index, new_frames) ==
    IF index > Len(fs) THEN new_frames
    ELSE LET this_frame == fs[index]
             has_current == new_frames # <<>>
             current_frame == new_frames[Len(new_frames)]
         IN IF has_current /\ FrameEq(this_frame, current_frame)
              THEN CompressLoop(fs, index + 1,
                     [new_frames EXCEPT ![Len(new_frames)].display_time =
                         current_frame.display_time + this_frame.display_time])
              ELSE CompressLoop(fs, index + 1, Append(new_frames, this_frame))

\* The sum of the display times of fs[i..j].
RECURSIVE SumTimes(_, _, _)
SumTimes(fs, i, j) ==
    IF i > j THEN 0 ELSE fs[i].display_time + SumTimes(fs, i + 1, j)

\* compress() without line 329: repeated frames are dropped, their time lost.
RECURSIVE CompressLoopNoSum(_, _, _)
CompressLoopNoSum(fs, index, new_frames) ==
    IF index > Len(fs) THEN new_frames
    ELSE IF new_frames # <<>> /\ FrameEq(fs[index], new_frames[Len(new_frames)])
      THEN CompressLoopNoSum(fs, index + 1, new_frames)
      ELSE CompressLoopNoSum(fs, index + 1, Append(new_frames, fs[index]))

CompressedNoSum(fs) == CompressLoopNoSum(fs, 1, <<>>)

\* compress() comparing with every frame kept so far, not only the current
\* one: frames with equal data are merged wherever they stand.
CompressedMergingAll(fs) ==
    LET firsts == SortedSeq({i \in 1..Len(fs) :
                        \A j \in 1..(i - 1) : fs[j].data # fs[i].data})
    IN [k \in 1..Len(firsts) |->
          Frame(fs[firsts[k]].data,
                SumTimes([i \in 1..Len(fs) |->
                            IF fs[i].data = fs[firsts[k]].data
                              THEN fs[i] ELSE Frame(fs[i].data, 0)],
                         1, Len(fs)))]

\* Movie.compress, ascii_movie.py:323-337: the new value of self.frames.
Compressed(fs) == CompressLoop(fs, 1, <<>>)

Movies == BoundedSeq([data : FrameData, display_time : 1..MaxDisplayTime], MaxFrames)

\* TimeBar.height, ascii_movie.py:81.
TimeBarHeight == 1

\* Movie.set_screen_dimensions, ascii_movie.py:177-179.
set_screen_dimensions(d, width, height) ==
    [d EXCEPT !.screen_width = width, !.screen_height = height]

\* set_frame_dimensions raising the screen height only, as it does the
\* screen width.
SetFrameDimensionsKeepingScreenHeight(d, width, height) ==
    LET screen_width == IF width > d.screen_width THEN width ELSE d.screen_width
        screen_height == IF height + TimeBarHeight > d.screen_height
                           THEN height + TimeBarHeight ELSE d.screen_height
    IN [screen_width |-> screen_width,
        screen_height |-> screen_height,
        frame_width |-> width,
        frame_height |-> height,
        left_margin |-> (screen_width - width) \div 2,
        top_margin |-> (screen_height - height - TimeBarHeight) \div 2]

\* Movie.set_frame_dimensions, ascii_movie.py:181-191.  `//` rounds down,
\* as \div does.
set_frame_dimensions(d, width, height) ==
    LET screen_width == IF width > d.screen_width THEN width ELSE d.screen_width
        screen_height == IF height + TimeBarHeight # 0
                           THEN height + TimeBarHeight ELSE d.screen_height
    IN [screen_width |-> screen_width,
        screen_height |-> screen_height,
        frame_width |-> width,
        frame_height |-> height,
        left_margin |-> (screen_width - width) \div 2,
        top_margin |-> (screen_height - height - TimeBarHeight) \div 2]

\* The arguments Movie.__init__ takes by default (line 151) and the frame
\* size it sets (line 175).
DefaultWidth == 80
DefaultHeight == 24
DefaultFrameWidth == 67
DefaultFrameHeight == 13

\* Movie.__init__, ascii_movie.py:161-175: the sizes and the one frame of a
\* new Movie.  No size is set (0 stands for None) before line 174.
NewMovieDimensions ==
    set_frame_dimensions(
        set_screen_dimensions(
            [screen_width |-> 0, screen_height |-> 0, frame_width |-> 0,
             frame_height |-> 0, left_margin |-> 0, top_margin |-> 0],
            DefaultWidth, DefaultHeight),
        DefaultFrameWidth, DefaultFrameHeight)

NewMovieFrames == <<Frame(<<"No movie yet loaded.">>, 1)>>

\* Movie(width, height): Movie.__init__, ascii_movie.py:161-175, called
\* with a screen size.
MovieDimensions(width, height) ==
    set_frame_dimensions(
        set_screen_dimensions(
            [screen_width |-> 0, screen_height |-> 0, frame_width |-> 0,
             frame_height |-> 0, left_margin |-> 0, top_margin |-> 0],
            width, height),
        DefaultFrameWidth, DefaultFrameHeight)

\* Bounds of the calls of set_frame_dimensions that are enumerated: how far
\* a frame may be wider than the default screen, and its greatest height
\* beside the default one.
MaxWiden == 2
MaxSetHeight == 2

\* The screen sizes a Movie is constructed with, and the frame sizes
\* set_frame_dimensions is called with: height -1 is the one value for
\* which line 186 leaves the screen height as it was.
ScreenWidths == {40, DefaultWidth}
ScreenHeights == {0, 5, DefaultHeight}
FrameWidths ==
    {0, DefaultFrameWidth} \cup ((DefaultWidth - 1)..(DefaultWidth + MaxWiden))
FrameHeights == (-1..MaxSetHeight) \cup {DefaultFrameHeight}

\* A Movie just constructed with a screen size.
DimensionsInit ==
    /\ frames = NewMovieFrames
    /\ loaded_frames = NewMovieFrames
    /\ before_compress = NewMovieFrames
    /\ compress_calls = 0
    /\ movie_error = ""
    /\ loaded = FALSE
    /\ load_result = ""
    /\ load_calls = 0
    /\ \E width \in ScreenWidths, height \in ScreenHeights :
          dimensions = MovieDimensions(width, height)

\* A call movie.set_frame_dimensions(width, height).
SetFrameDimensions ==
    /\ \E width \in FrameWidths, height \in FrameHeights :
          dimensions' = set_frame_dimensions(dimensions, width, height)
    /\ UNCHANGED <<frames, loaded_frames, before_compress, compress_calls, movie_error,
                   loaded, load_result, load_calls>>
    /\ UNCHANGED <<filterVars, sessionVars, pagerVars, timeBarVars, spliceVars, serverVars>>

DimensionsNext == SetFrameDimensions

MovieIdle ==
    /\ frames = <<>>
    /\ loaded_frames = <<>>
    /\ before_compress = <<>>
    /\ compress_calls = 0
    /\ movie_error = ""
    /\ loaded = FALSE
    /\ load_result = ""
    /\ load_calls = 0
    /\ dimensions = NewMovieDimensions

\* A Movie whose frames were just read from a file (line 214 or 216).
MovieInit ==
    /\ frames \in Movies
    /\ loaded_frames = frames
    /\ before_compress = frames
    /\ compress_calls = 0
    /\ movie_error = ""
    /\ loaded = FALSE
    /\ load_result = ""
    /\ load_calls = 1
    /\ dimensions = NewMovieDimensions

\* Most compress() calls made on one movie.
MaxCompressCalls == 2

\* Movie.compress(): line 334 divides by len(self.frames), so an empty
\* frame list raises ZeroDivisionError before line 337 assigns.
Compress ==
    /\ UNCHANGED <<filterVars, sessionVars, loadVars, pagerVars, timeBarVars, spliceVars, serverVars>>
    /\ movie_error = ""
    /\ compress_calls < MaxCompressCalls
    /\ IF frames = <<>>
         THEN /\ movie_error' = "ZeroDivisionError"
              /\ UNCHANGED <<frames, loaded_frames, before_compress, compress_calls>>
         ELSE /\ frames' = Compressed(frames)
              /\ before_compress' = frames
              /\ compress_calls' = compress_calls + 1
              /\ UNCHANGED <<loaded_frames, movie_error>>

MovieNext == Compress

(***************************************************************************)
(* Movie.load, ascii_movie.py:193-220.  A file is the record of its        *)
(* extension, whether it can be opened, and the frames written in it.      *)
(***************************************************************************)
\* Most frames of a file given to load(), and most load() calls on a Movie.
MaxFileFrames == 2
MaxLoadCalls == 3

Files ==
    [ext : {"txt", "yaml", "pkl"},
     exists : BOOLEAN,
     frames : BoundedSeq([data : FrameData, display_time : 1..MaxDisplayTime],
                         MaxFileFrames)]

\* Frame.dimensions, ascii_movie.py:56-63: the longest line and the number
\* of lines.
Max(S) == CHOOSE x \in S : \A y \in S : y <= x

\* colorama.Back.BLACK, Fore.WHITE and Style.RESET_ALL, with <ESC> for the
\* escape character.
BackBlack == "<ESC>[40m"
ForeWhite == "<ESC>[37m"
ResetAll == "<ESC>[0m"

\* len(ansi_escape.sub('', line)), line 60, for a line that is plain or
\* wrapped in the codes of _format_spliced_line.
VisibleLen(line) ==
    IF Len(line) >= Len(BackBlack \o ForeWhite \o ResetAll)
       /\ SubSeq(line, 1, Len(BackBlack \o ForeWhite)) = BackBlack \o ForeWhite
      THEN Len(line) - Len(BackBlack \o ForeWhite \o ResetAll)
      ELSE Len(line)

FrameDimensions(f) ==
    [width |-> Max({VisibleLen(f.data[i]) : i \in 1..Len(f.data)}),
     height |-> Len(f.data)]

\* What line 214 or 216 assigns to self.frames: the frames of a .txt file
\* with their display times (_get_text_frames, lines 222-240), the frames
\* of a .yaml file with Frame()'s display_time of 1 (generate_frames, lines
\* 246-261); for another extension self.frames is not assigned.
FramesRead(file, old) ==
    IF file.ext = "txt" THEN file.frames
    ELSE IF file.ext = "yaml"
      THEN [i \in 1..Len(file.frames) |-> Frame(file.frames[i].data, 1)]
    ELSE old

\* generate_frames, lines 257-260: the first frame of a .yaml file sets the
\* frame dimensions.
DimensionsRead(file, d) ==
    IF file.ext = "yaml" /\ file.frames # <<>>
      THEN set_frame_dimensions(d, FrameDimensions(file.frames[1]).width,
                                FrameDimensions(file.frames[1]).height)
      ELSE d

\* The test of lines 208-210: a loaded Movie refuses to load.
RefusesLoadNever(is_loaded) == FALSE

RefusesLoad(is_loaded) == is_loaded

\* One call of load(filepath).
Load ==
    /\ UNCHANGED <<filterVars, sessionVars, pagerVars, timeBarVars, spliceVars, serverVars>>
    /\ load_calls < MaxLoadCalls
    /\ movie_error = ""
    /\ load_calls' = load_calls + 1
    /\ \E file \in Files :
         IF RefusesLoad(loaded)
           THEN /\ load_result' = "False"
                /\ UNCHANGED <<frames, loaded_frames, before_compress, compress_calls,
                               movie_error, loaded, dimensions>>
         ELSE IF ~file.exists
           THEN /\ movie_error' = "FileNotFoundError"
                /\ UNCHANGED <<frames, loaded_frames, before_compress, compress_calls,
                               loaded, load_result, dimensions>>
         ELSE IF FramesRead(file, frames) = <<>>
           THEN /\ frames' = <<>>
                /\ movie_error' = "ZeroDivisionError"
                /\ UNCHANGED <<loaded_frames, before_compress, compress_calls,
                               loaded, load_result, dimensions>>
         ELSE /\ frames' = Compressed(FramesRead(file, frames))
              /\ loaded_frames' = FramesRead(file, frames)
              /\ before_compress' = FramesRead(file, frames)
              /\ compress_calls' = compress_calls + 1
              /\ dimensions' = DimensionsRead(file, dimensions)
              /\ loaded' = TRUE
              /\ load_result' = "True"
              /\ UNCHANGED movie_error

\* A Movie as Movie() makes it (lines 161-175).
NewMovie ==
    /\ frames = NewMovieFrames
    /\ loaded_frames = NewMovieFrames
    /\ before_compress = NewMovieFrames
    /\ compress_calls = 0
    /\ movie_error = ""
    /\ loaded = FALSE
    /\ load_result = ""
    /\ load_calls = 0
    /\ dimensions = NewMovieDimensions

LoadNext == Load

(***************************************************************************)
(* Python str and file operations the handler uses.                        *)
(***************************************************************************)
\* str.lower() on one code point of the Latin-1 range: A-Z and the accented
\* capitals 192..222 (215, the multiplication sign, excepted) move up by 32.
LowerChar(c) ==
    IF (65 <= c /\ c <= 90) \/ (192 <= c /\ c <= 222 /\ c # 215) THEN c + 32 ELSE c

Lower(s) == [i \in 1..Len(s) |-> LowerChar(s[i])]

\* `sub in s` for two str.
Contains(sub, s) ==
    \E o \in 0..(Len(s) - Len(sub)) : \A k \in 1..Len(sub) : s[o + k] = sub[k]

\* str.isspace() on one code point of the Latin-1 range.
IsSpace(c) == c \in {9, 10, 11, 12, 13, 28, 29, 30, 31, 32, 133, 160}

\* str.strip().
RECURSIVE LStrip(_)
LStrip(s) == IF s # <<>> /\ IsSpace(Head(s)) THEN LStrip(Tail(s)) ELSE s

RECURSIVE RStrip(_)
RStrip(s) ==
    IF s # <<>> /\ IsSpace(s[Len(s)]) THEN RStrip(SubSeq(s, 1, Len(s) - 1)) ELSE s

Strip(s) == RStrip(LStrip(s))

\* rfile.readline(max_bytes_in) on the bytes the peer has sent: the bytes up
\* to and including the first line feed, and at most max_bytes_in of them.
ReadLine(sent, max_bytes_in) ==
    LET nl == FirstAt(sent, 10, 1)
        line == IF nl = 0 THEN sent ELSE SubSeq(sent, 1, nl)
    IN IF Len(line) > max_bytes_in THEN SubSeq(line, 1, max_bytes_in) ELSE line

\* What prompt() returns for the bytes the peer sent, ascii_server.py:185-187.
PromptResult(sent, max_bytes_in) ==
    Strip(get_text_from_raw_bytes(ReadLine(sent, max_bytes_in)))

\* The default of prompt()'s max_bytes_in (line 180) and the value
\* verify_is_human passes (line 222).
DefaultMaxBytesIn == 300
HumanMaxBytesIn == 20

(***************************************************************************)
(* verify_is_human, ascii_server.py:221-228.                               *)
(***************************************************************************)
\* The list of line 223.
HumanAnswers == <<Str(<<"y", "e", "s">>), Str(<<"y", "e", "a">>),
                  Str(<<"s", "i">>), Str(<<"y", "e", "p">>)>>

\* The loop of lines 223-226 finds an answer: `answer in response.lower()`.
IsHumanWithoutLower(resp) ==
    \E a \in 1..Len(HumanAnswers) : Contains(HumanAnswers[a], resp)

IsHuman(resp) ==
    \E a \in 1..Len(HumanAnswers) : Contains(HumanAnswers[a], Lower(resp))

(***************************************************************************)
(* The dialogue tree, prompt_resolver.py.  A node is a record with a type: *)
(* Output, Repeat, Prompt, a str, or None.  The response of a Prompt is a  *)
(* node or a dict, kept as the list of its items in declaration order; a   *)
(* key of the dict is a regular expression, here a literal that may be     *)
(* anchored at the start ("^lit").                                         *)
(***************************************************************************)
None == [type |-> "None"]
Repeat == [type |-> "Repeat"]
Output(output_text) == [type |-> "Output", output_text |-> output_text]
StrValue(value) == [type |-> "str", value |-> value]
Dict(items) == [type |-> "dict", items |-> items]
Item(anchored, literal, value) ==
    [anchored |-> anchored, literal |-> literal, value |-> value]
Prompt(prompt, resp, default) ==
    [type |-> "Prompt", prompt |-> prompt, response |-> resp, default |-> default]

\* re.search(key, text, re.IGNORECASE) for a key "lit" or "^lit".
ReSearch(item, text) ==
    IF item.anchored
      THEN /\ Len(text) >= Len(item.literal)
           /\ Lower(SubSeq(text, 1, Len(item.literal))) = Lower(item.literal)
      ELSE Contains(Lower(item.literal), Lower(text))

\* _find_response keeping the value of the last key that matches.
FindResponseLastMatch(p, text) ==
    IF p.response.type \in {"str", "Output", "Prompt"} THEN p.response
    ELSE IF p.response.type = "dict"
              /\ \E i \in 1..Len(p.response.items) : ReSearch(p.response.items[i], text)
      THEN p.response.items[
               Max({i \in 1..Len(p.response.items) :
                       ReSearch(p.response.items[i], text)})].value
    ELSE p.default

\* _find_response taking a str response for no response at all.
FindResponseWithoutStr(p, text) ==
    IF p.response.type \in {"Output", "Prompt"} THEN p.response
    ELSE IF p.response.type = "dict"
              /\ \E i \in 1..Len(p.response.items) : ReSearch(p.response.items[i], text)
      THEN p.response.items[
               Min({i \in 1..Len(p.response.items) :
                       ReSearch(p.response.items[i], text)})].value
    ELSE p.default

\* Prompt._find_response, prompt_resolver.py:46-53.
FindResponse(p, text) ==
    IF p.response.type \in {"str", "Output", "Prompt"} THEN p.response
    ELSE IF p.response.type = "dict"
              /\ \E i \in 1..Len(p.response.items) : ReSearch(p.response.items[i], text)
      THEN p.response.items[
               Min({i \in 1..Len(p.response.items) :
                       ReSearch(p.response.items[i], text)})].value
    ELSE p.default

\* _resolve_conversation_value returning an Output as it is, not its dict.
RECURSIVE TraceKeepsNode(_, _)
TraceKeepsNode(pairs, last) ==
    IF pairs # <<>>
      THEN [type |-> "dict", prompt |-> Head(pairs).prompt,
            input |-> Head(pairs).input, resolved |-> TraceKeepsNode(Tail(pairs), last)]
    ELSE last

\* The dict _resolve_conversation_value returns (prompt_resolver.py:69-86)
\* for a chain of resolved Prompts that ended in the value `last`.
RECURSIVE Trace(_, _)
Trace(pairs, last) ==
    IF pairs # <<>>
      THEN [type |-> "dict", prompt |-> Head(pairs).prompt,
            input |-> Head(pairs).input, resolved |-> Trace(Tail(pairs), last)]
    ELSE IF last.type = "Output"
      THEN [type |-> "dict", output |-> last.output_text]
    ELSE last

\* bool(v) of a returned value: None and the empty str are false.
Truthy(v) ==
    IF v.type = "None" THEN FALSE
    ELSE IF v.type = "str" THEN v.value # ""
    ELSE TRUE

\* `"input" in d` for a returned value d.
HasInput(d) == d.type = "dict" /\ "input" \in DOMAIN d

(***************************************************************************)
(* One connection: TelnetRequestHandler.handle, ascii_server.py:100-120,   *)
(* cut into steps at its blocking calls (a write, a read, a sleep).        *)
(***************************************************************************)
\* Bounds: the longest reply enumerated for the human check, the frames of
\* the movie served, the re-asked Prompts of one session and the runs of the
\* adventure conversation.
MaxReplyLen == 3
ServedFrames == 3
MaxRepeats == 1
MaxAdventureRuns == 3

\* range(1, 16) of line 152 counts down from 15.
CountdownFrom == 15

\* A local that is not bound (yet).
Unbound == <<NoByte>>

\* str.encode: the bytes of a typed line, ended by CR LF.
Line(cs) == Str(cs) \o <<13, 10>>

\* What the peer may send in answer to "Are you a human?": every byte
\* sequence up to MaxReplyLen over the letters of the answers, an upper-case
\* letter, a letter of no answer, line feed and IAC; and one line longer
\* than the 20 bytes verify_is_human reads.
HumanBytes == {Ord("y"), Ord("e"), Ord("s"), Ord("a"), Ord("i"), Ord("p"),
               Ord("Y"), Ord("n"), 10, IAC}

LongHumanLine == [i \in 1..18 |-> 32] \o Line(<<"y", "e", "s">>)

HumanSent == BoundedSeq(HumanBytes, MaxReplyLen) \cup {LongHumanLine}

\* What the peer may send in answer to a prompt of a conversation.
DialogueSent == {Line(<<"a", "d", "v", "e", "n", "t", "u", "r", "e", "r">>),
                 Line(<<"n", "o">>),
                 Line(<<"l", "e", "f", "t">>),
                 Line(<<"r", "e", "t", "r", "y">>),
                 <<IAC, WILL, NAWS>> \o Line(<<"l", "e", "f", "t">>),
                 Line(<<"Y", "e", "s">>),
                 Line(<<"m", "a", "y", "b", "e">>),
                 <<>>}

\* dialogue_options = None, and a Dialogue with the three conversations the
\* handler runs (the YAML file is not part of the sources).
NoDialogue == None

TheDialogue ==
    [type |-> "Dialogue",
     conversations |->
       [visitor |->
            Prompt("What is your name?",
                   Dict(<<Item(FALSE, Str(<<"a", "d", "v", "e", "n", "t", "u", "r", "e", "r">>),
                               Output("Welcome, adventurer")),
                          Item(TRUE, Str(<<"n">>), Repeat)>>),
                   None),
        adventure |->
            Prompt("Your name, adventurer?",
                   Prompt("Left or right?",
                          Dict(<<Item(TRUE, Str(<<"l">>), Output("You went left"))>>),
                          Output("You went right")),
                   None),
        parting_message |->
            Prompt("Any parting message?", StrValue("thanks"), None)]]

\* A Dialogue that defines no "parting_message": runTcpServer
\* (ascii_telnet_server.py:60-82) hands any Dialogue to the handler class
\* as it is.
DialogueWithoutParting ==
    [type |-> "Dialogue",
     conversations |-> [visitor |-> TheDialogue.conversations.visitor,
                        adventure |-> TheDialogue.conversations.adventure]]

\* The movie the server was started with: loaded and compressed.
ServedMovie ==
    [i \in 1..ServedFrames |-> Frame(IF i % 2 = 1 THEN <<"x">> ELSE <<"y">>, i)]

MovieServed ==
    /\ frames = ServedMovie
    /\ loaded_frames = ServedMovie
    /\ before_compress = ServedMovie
    /\ compress_calls = 1
    /\ movie_error = ""
    /\ loaded = TRUE
    /\ load_result = "True"
    /\ load_calls = 1
    /\ dimensions = NewMovieDimensions

\* No handle() is followed statement by statement.
HandlerIdle ==
    /\ pc = "idle"
    /\ phase = ""
    /\ peer_gone = FALSE
    /\ io_log = <<>>
    /\ rfile = <<>>
    /\ response = Unbound
    /\ second = 0
    /\ conversation = ""
    /\ node = None
    /\ answers = <<>>
    /\ results = None
    /\ repeats = 0
    /\ visitor = Unbound
    /\ adventure_runs = 0
    /\ notified = <<>>
    /\ frame_pos = 0
    /\ player_stopped = FALSE
    /\ outcome = ""

SessionIdle == dialogue_options = NoDialogue /\ HandlerIdle

\* A connection was accepted and handle() is about to run; the class
\* attributes were set by set_up_handler_global_state (lines 91-98).
SessionInit ==
    /\ dialogue_options \in {NoDialogue, TheDialogue, DialogueWithoutParting}
    /\ pc = "verify_ask"
    /\ phase = ""
    /\ peer_gone = FALSE
    /\ io_log = <<>>
    /\ rfile = <<>>
    /\ response = Unbound
    /\ second = 0
    /\ conversation = ""
    /\ node = None
    /\ answers = <<>>
    /\ results = None
    /\ repeats = 0
    /\ visitor = Unbound
    /\ adventure_runs = 0
    /\ notified = <<>>
    /\ frame_pos = 0
    /\ player_stopped = FALSE
    /\ outcome = ""

\* wfile.write(...) of `text` in phase ph: the entry of the log.  The write
\* raises BrokenPipeError when the peer is gone.
Written(ph, text, n) ==
    [kind |-> "write", text |-> text, n |-> n, ok |-> ~peer_gone, phase |-> ph]

\* time.sleep(...) in phase ph.
Slept(ph, text, n) ==
    [kind |-> "sleep", text |-> text, n |-> n, ok |-> TRUE, phase |-> ph]

\* The except clause of handle(), lines 119-120: which exceptions it catches.
CaughtNothing(exc) == FALSE

Caught(exc) == exc = "BrokenPipeError"

\* An exception reaches handle()'s try statement: the handler ends, silently
\* if the exception is caught, with the exception otherwise.
Raise(exc) ==
    /\ pc' = "done"
    /\ outcome' = IF Caught(exc) THEN "peer_gone" ELSE exc

\* verify_is_human, line 222: prompt() writes the question.
VerifyAsk ==
    /\ pc = "verify_ask"
    /\ phase' = "HumanCheck"
    /\ io_log' = Append(io_log, Written("HumanCheck", "Are you a human? ", 0))
    /\ IF peer_gone THEN Raise("BrokenPipeError")
       ELSE pc' = "verify_read" /\ UNCHANGED outcome
    /\ UNCHANGED <<dialogue_options, peer_gone, rfile, response, second, dialogueVars,
                   visitor, adventure_runs, notified, frame_pos, player_stopped>>
    /\ UNCHANGED <<filterVars, movieVars, pagerVars, timeBarVars, spliceVars, serverVars>>

\* verify_is_human, line 222: prompt() reads at most 20 bytes of a line.
VerifyRead ==
    /\ pc = "verify_read"
    /\ \E sent \in HumanSent :
         /\ rfile' = sent
         /\ response' = PromptResult(sent, HumanMaxBytesIn)
    /\ pc' = "verify_answer"
    /\ UNCHANGED <<dialogue_options, phase, peer_gone, io_log, second, dialogueVars,
                   visitor, adventure_runs, notified, frame_pos, player_stopped,
                   outcome>>
    /\ UNCHANGED <<filterVars, movieVars, pagerVars, timeBarVars, spliceVars, serverVars>>

\* verify_is_human, lines 223-227: the loop over the answers and the
\* message it leads to.
VerifyAnswer ==
    /\ pc = "verify_answer"
    /\ io_log' = Append(io_log,
          Written(phase, IF IsHuman(response)
                           THEN "Whew. Ok. I thought you were a robot. Close one!"
                           ELSE "Robots are not welcome! Get off my lawn!", 0))
    /\ IF peer_gone THEN Raise("BrokenPipeError")
       ELSE /\ pc' = IF IsHuman(response) THEN "verify_return" ELSE "verify_raise"
            /\ UNCHANGED outcome
    /\ UNCHANGED <<dialogue_options, phase, peer_gone, rfile, response, second,
                   dialogueVars, visitor, adventure_runs, notified, frame_pos,
                   player_stopped>>
    /\ UNCHANGED <<filterVars, movieVars, pagerVars, timeBarVars, spliceVars, serverVars>>

\* verify_is_human returns (line 226) to handle(), line 107.
VerifyReturn ==
    /\ pc = "verify_return"
    /\ pc' = "prime_intro"
    /\ rfile' = <<>>
    /\ response' = Unbound
    /\ UNCHANGED <<dialogue_options, phase, peer_gone, io_log, second, dialogueVars,
                   visitor, adventure_runs, notified, frame_pos, player_stopped,
                   outcome>>
    /\ UNCHANGED <<filterVars, movieVars, pagerVars, timeBarVars, spliceVars, serverVars>>

\* verify_is_human raises NotAHumanError (line 228); handle() catches it
\* and returns (lines 104-106).
VerifyRaise ==
    /\ pc = "verify_raise"
    /\ pc' = "done"
    /\ outcome' = "nonhuman"
    /\ UNCHANGED <<dialogue_options, phase, peer_gone, io_log, rfile, response, second,
                   dialogueVars, visitor, adventure_runs, notified, frame_pos,
                   player_stopped>>
    /\ UNCHANGED <<filterVars, movieVars, pagerVars, timeBarVars, spliceVars, serverVars>>

\* prepare_for_screen_size, lines 149-151.
PrimeIntro ==
    /\ pc = "prime_intro"
    /\ phase' = "ScreenSizePriming"
    /\ IF peer_gone
         THEN /\ io_log' = Append(io_log,
                     Written("ScreenSizePriming", "A box is about to be shown", 0))
              /\ Raise("BrokenPipeError")
              /\ UNCHANGED second
         ELSE /\ io_log' = io_log
                     \o <<Written("ScreenSizePriming", "A box is about to be shown", 0),
                          Slept("ScreenSizePriming", "sleep(5)", 5)>>
              /\ second' = CountdownFrom
              /\ pc' = "prime_clear"
              /\ UNCHANGED outcome
    /\ UNCHANGED <<dialogue_options, peer_gone, rfile, response, dialogueVars, visitor,
                   adventure_runs, notified, frame_pos, player_stopped>>
    /\ UNCHANGED <<filterVars, movieVars, pagerVars, timeBarVars, spliceVars, serverVars>>

\* prepare_for_screen_size, line 153.
PrimeClear ==
    /\ pc = "prime_clear"
    /\ io_log' = Append(io_log, Written(phase, "CLEAR_SCREEN", second))
    /\ IF peer_gone THEN Raise("BrokenPipeError")
       ELSE pc' = "prime_box" /\ UNCHANGED outcome
    /\ UNCHANGED <<dialogue_options, phase, peer_gone, rfile, response, second,
                   dialogueVars, visitor, adventure_runs, notified, frame_pos,
                   player_stopped>>
    /\ UNCHANGED <<filterVars, movieVars, pagerVars, timeBarVars, spliceVars, serverVars>>

\* prepare_for_screen_size, line 154.
PrimeBox ==
    /\ pc = "prime_box"
    /\ io_log' = Append(io_log, Written(phase, "screen_box", second))
    /\ IF peer_gone THEN Raise("BrokenPipeError")
       ELSE pc' = "prime_count" /\ UNCHANGED outcome
    /\ UNCHANGED <<dialogue_options, phase, peer_gone, rfile, response, second,
                   dialogueVars, visitor, adventure_runs, notified, frame_pos,
                   player_stopped>>
    /\ UNCHANGED <<filterVars, movieVars, pagerVars, timeBarVars, spliceVars, serverVars>>

\* prepare_for_screen_size, lines 155-156 and the loop's next iteration;
\* after the last one handle() goes on at line 108.
PrimeCountOnce ==
    /\ pc = "prime_count"
    /\ IF peer_gone
         THEN /\ io_log' = Append(io_log, Written(phase, "Continuing in", second))
              /\ Raise("BrokenPipeError")
              /\ UNCHANGED second
         ELSE /\ io_log' = io_log \o <<Written(phase, "Continuing in", second),
                                       Slept(phase, "sleep(1)", 1)>>
              /\ UNCHANGED second
              /\ pc' = IF Truthy(dialogue_options)
                         THEN "visitor_run" ELSE "play_start"
              /\ UNCHANGED outcome
    /\ UNCHANGED <<dialogue_options, phase, peer_gone, rfile, response, dialogueVars,
                   visitor, adventure_runs, notified, frame_pos, player_stopped>>
    /\ UNCHANGED <<filterVars, movieVars, pagerVars, timeBarVars, spliceVars, serverVars>>

PrimeCount ==
    /\ pc = "prime_count"
    /\ IF peer_gone
         THEN /\ io_log' = Append(io_log, Written(phase, "Continuing in", second))
              /\ Raise("BrokenPipeError")
              /\ UNCHANGED second
         ELSE /\ io_log' = io_log \o <<Written(phase, "Continuing in", second),
                                       Slept(phase, "sleep(1)", 1)>>
              /\ IF second > 1
                   THEN second' = second - 1 /\ pc' = "prime_clear"
                   ELSE /\ UNCHANGED second
                        /\ pc' = IF Truthy(dialogue_options)
                                   THEN "visitor_run" ELSE "play_start"
              /\ UNCHANGED outcome
    /\ UNCHANGED <<dialogue_options, phase, peer_gone, rfile, response, dialogueVars,
                   visitor, adventure_runs, notified, frame_pos, player_stopped>>
    /\ UNCHANGED <<filterVars, movieVars, pagerVars, timeBarVars, spliceVars, serverVars>>

\* What Prompt.run hands to prompt_func (prompt_resolver.py:40), with the
\* space prompt() pads it with before it hands it to output()
\* (ascii_server.py:181-184); what Output.run hands to output_func
\* (prompt_resolver.py:14).
PromptText(prompt) == "\n" \o prompt \o "\n>> " \o " "

OutputTextBare(output_text) == output_text

OutputText(output_text) == "\n" \o output_text

\* Dialogue.run(name, ...), prompt_resolver.py:66-67, called by the handler
\* in phase ph: the lookup of the conversation raises KeyError for a name
\* the Dialogue does not define.
RunConversation(ph, name) ==
    /\ phase' = ph
    /\ conversation' = name
    /\ IF name \in DOMAIN dialogue_options.conversations
         THEN /\ node' = dialogue_options.conversations[name]
              /\ answers' = <<>>
              /\ pc' = "resolve"
              /\ UNCHANGED outcome
         ELSE /\ Raise("KeyError")
              /\ UNCHANGED <<node, answers>>

\* run_visitor_dialogue, line 123.
VisitorRun ==
    /\ pc = "visitor_run"
    /\ RunConversation("VisitorDialogue", "visitor")
    /\ UNCHANGED <<dialogue_options, peer_gone, io_log, rfile, response, second, results,
                   repeats, visitor, adventure_runs, notified, frame_pos,
                   player_stopped>>
    /\ UNCHANGED <<filterVars, movieVars, pagerVars, timeBarVars, spliceVars, serverVars>>

\* _resolve_conversation_value on a Prompt: Prompt.run writes the question
\* through prompt_func (prompt_resolver.py:40, ascii_server.py:184).
ResolveAsk ==
    /\ pc = "resolve"
    /\ node.type = "Prompt"
    /\ io_log' = Append(io_log, Written(phase, PromptText(node.prompt), 0))
    /\ IF peer_gone THEN Raise("BrokenPipeError")
       ELSE pc' = "resolve_read" /\ UNCHANGED outcome
    /\ UNCHANGED <<dialogue_options, phase, peer_gone, rfile, response, second,
                   dialogueVars, visitor, adventure_runs, notified, frame_pos,
                   player_stopped>>
    /\ UNCHANGED <<filterVars, movieVars, pagerVars, timeBarVars, spliceVars, serverVars>>

\* Prompt.run answering a Repeat by running the conversation from its root.
ResolveReadRestartsConversation ==
    /\ pc = "resolve_read"
    /\ \E sent \in DialogueSent :
         LET input_text == PromptResult(sent, DefaultMaxBytesIn)
             found == FindResponse(node, input_text)
         IN IF found.type = "Repeat"
              THEN /\ repeats < MaxRepeats
                   /\ repeats' = repeats + 1
                   /\ node' = dialogue_options.conversations[conversation]
                   /\ answers' = <<>>
              ELSE /\ answers' = Append(answers, [prompt |-> node.prompt,
                                                  input |-> input_text])
                   /\ node' = found
                   /\ UNCHANGED repeats
    /\ pc' = "resolve"
    /\ UNCHANGED <<dialogue_options, phase, peer_gone, io_log, rfile, response, second,
                   conversation, results, visitor, adventure_runs, notified,
                   frame_pos, player_stopped, outcome>>
    /\ UNCHANGED <<filterVars, movieVars, pagerVars, timeBarVars, spliceVars, serverVars>>

\* Prompt.run reads the reply and finds the response (prompt_resolver.py:
\* 40-44): a Repeat runs the same Prompt again, any other response is
\* resolved next (prompt_resolver.py:73-78).
ResolveRead ==
    /\ pc = "resolve_read"
    /\ \E sent \in DialogueSent :
         LET input_text == PromptResult(sent, DefaultMaxBytesIn)
             found == FindResponse(node, input_text)
         IN IF found.type = "Repeat"
              THEN /\ repeats < MaxRepeats
                   /\ repeats' = repeats + 1
                   /\ UNCHANGED <<node, answers>>
              ELSE /\ answers' = Append(answers, [prompt |-> node.prompt,
                                                  input |-> input_text])
                   /\ node' = found
                   /\ UNCHANGED repeats
    /\ pc' = "resolve"
    /\ UNCHANGED <<dialogue_options, phase, peer_gone, io_log, rfile, response, second,
                   conversation, results, visitor, adventure_runs, notified,
                   frame_pos, player_stopped, outcome>>
    /\ UNCHANGED <<filterVars, movieVars, pagerVars, timeBarVars, spliceVars, serverVars>>

\* _resolve_conversation_value on an Output (prompt_resolver.py:80-84):
\* Output.run writes the text through output_func.
ResolveOutput ==
    /\ pc = "resolve"
    /\ node.type = "Output"
    /\ io_log' = Append(io_log, Written(phase, OutputText(node.output_text), 0))
    /\ IF peer_gone
         THEN Raise("BrokenPipeError") /\ UNCHANGED results
         ELSE /\ results' = Trace(answers, node)
              /\ pc' = "resolved"
              /\ UNCHANGED outcome
    /\ UNCHANGED <<dialogue_options, phase, peer_gone, rfile, response, second,
                   conversation, node, answers, repeats, visitor, adventure_runs,
                   notified, frame_pos, player_stopped>>
    /\ UNCHANGED <<filterVars, movieVars, pagerVars, timeBarVars, spliceVars, serverVars>>

\* _resolve_conversation_value calling run() on whatever is no Prompt: None
\* has no run().
ResolveValueRaisesOnNone ==
    /\ pc = "resolve"
    /\ node.type \notin {"Prompt", "Output"}
    /\ IF node = None
         THEN Raise("AttributeError") /\ UNCHANGED results
         ELSE /\ results' = Trace(answers, node)
              /\ pc' = "resolved"
              /\ UNCHANGED outcome
    /\ UNCHANGED <<dialogue_options, phase, peer_gone, io_log, rfile, response, second,
                   conversation, node, answers, repeats, visitor, adventure_runs,
                   notified, frame_pos, player_stopped>>
    /\ UNCHANGED <<filterVars, movieVars, pagerVars, timeBarVars, spliceVars, serverVars>>

\* _resolve_conversation_value on any other value (prompt_resolver.py:85-86).
ResolveValue ==
    /\ pc = "resolve"
    /\ node.type \notin {"Prompt", "Output"}
    /\ results' = Trace(answers, node)
    /\ pc' = "resolved"
    /\ UNCHANGED <<dialogue_options, phase, peer_gone, io_log, rfile, response, second,
                   conversation, node, answers, repeats, visitor, adventure_runs,
                   notified, frame_pos, player_stopped, outcome>>
    /\ UNCHANGED <<filterVars, movieVars, pagerVars, timeBarVars, spliceVars, serverVars>>

\* handle() line 110, once run_visitor_dialogue has returned `name`.
AfterVisitorDialogue(name) ==
    IF Contains(Str(<<"a", "d", "v", "e", "n", "t", "u", "r", "e", "r">>), Lower(name))
      THEN "adventure_run" ELSE "play_start"

\* run_visitor_dialogue, lines 124-129, until its prompt or its return.
VisitorResolved ==
    /\ pc = "resolved"
    /\ conversation = "visitor"
    /\ IF HasInput(results)
         THEN /\ visitor' = results.input
              /\ notified' = Append(notified, "Server has been visited")
              /\ pc' = IF Truthy(results.resolved)
                         THEN "continue_ask"
                         ELSE AfterVisitorDialogue(results.input)
              /\ UNCHANGED outcome
         ELSE /\ Raise("KeyError")
              /\ UNCHANGED <<visitor, notified>>
    /\ UNCHANGED <<dialogue_options, phase, peer_gone, io_log, rfile, response, second,
                   dialogueVars, adventure_runs, frame_pos, player_stopped>>
    /\ UNCHANGED <<filterVars, movieVars, pagerVars, timeBarVars, spliceVars, serverVars>>

\* run_visitor_dialogue, line 128: prompt() writes.
ContinueAsk ==
    /\ pc = "continue_ask"
    /\ io_log' = Append(io_log, Written(phase, "Press enter to continue... ", 0))
    /\ IF peer_gone THEN Raise("BrokenPipeError")
       ELSE pc' = "continue_read" /\ UNCHANGED outcome
    /\ UNCHANGED <<dialogue_options, phase, peer_gone, rfile, response, second,
                   dialogueVars, visitor, adventure_runs, notified, frame_pos,
                   player_stopped>>
    /\ UNCHANGED <<filterVars, movieVars, pagerVars, timeBarVars, spliceVars, serverVars>>

\* run_visitor_dialogue, lines 128-129: the reply is read and dropped.
ContinueRead ==
    /\ pc = "continue_read"
    /\ \E sent \in DialogueSent :
         PromptResult(sent, DefaultMaxBytesIn) = PromptResult(sent, DefaultMaxBytesIn)
    /\ pc' = AfterVisitorDialogue(visitor)
    /\ UNCHANGED <<dialogue_options, phase, peer_gone, io_log, rfile, response, second,
                   dialogueVars, visitor, adventure_runs, notified, frame_pos,
                   player_stopped, outcome>>
    /\ UNCHANGED <<filterVars, movieVars, pagerVars, timeBarVars, spliceVars, serverVars>>

\* run_adventure, line 133: one iteration of its loop begins.
AdventureRun ==
    /\ pc = "adventure_run"
    /\ adventure_runs < MaxAdventureRuns
    /\ adventure_runs' = adventure_runs + 1
    /\ RunConversation("VisitorDialogue", "adventure")
    /\ UNCHANGED <<dialogue_options, peer_gone, io_log, rfile, response, second, results,
                   repeats, visitor, notified, frame_pos, player_stopped>>
    /\ UNCHANGED <<filterVars, movieVars, pagerVars, timeBarVars, spliceVars, serverVars>>

\* run_adventure, lines 134-138.  Dialogue.make_dialogue_readable, called
\* at line 135, is not among the sources; it is taken to return the
\* readable form of the results and to change nothing.
AdventureResolved ==
    /\ pc = "resolved"
    /\ conversation = "adventure"
    /\ IF HasInput(results)
         THEN /\ notified' = Append(notified, "An adventurer has come!")
              /\ pc' = "retry_ask"
              /\ UNCHANGED outcome
         ELSE /\ Raise("KeyError")
              /\ UNCHANGED notified
    /\ UNCHANGED <<dialogue_options, phase, peer_gone, io_log, rfile, response, second,
                   dialogueVars, visitor, adventure_runs, frame_pos, player_stopped>>
    /\ UNCHANGED <<filterVars, movieVars, pagerVars, timeBarVars, spliceVars, serverVars>>

\* run_adventure, lines 139-143: prompt() writes.
RetryAsk ==
    /\ pc = "retry_ask"
    /\ io_log' = Append(io_log,
          Written(phase, "Press enter to continue or enter 'retry'", 0))
    /\ IF peer_gone THEN Raise("BrokenPipeError")
       ELSE pc' = "retry_read" /\ UNCHANGED outcome
    /\ UNCHANGED <<dialogue_options, phase, peer_gone, rfile, response, second,
                   dialogueVars, visitor, adventure_runs, notified, frame_pos,
                   player_stopped>>
    /\ UNCHANGED <<filterVars, movieVars, pagerVars, timeBarVars, spliceVars, serverVars>>

\* run_adventure, lines 140-146: 'retry' in the reply runs the loop again,
\* any other reply returns adventurer_name, which handle() binds to visitor.
RetryRead ==
    /\ pc = "retry_read"
    /\ \E sent \in DialogueSent :
         IF Contains(Str(<<"r", "e", "t", "r", "y">>),
                     PromptResult(sent, DefaultMaxBytesIn))
           THEN pc' = "adventure_run" /\ UNCHANGED visitor
           ELSE pc' = "play_start" /\ visitor' = results.input
    /\ UNCHANGED <<dialogue_options, phase, peer_gone, io_log, rfile, response, second,
                   dialogueVars, adventure_runs, notified, frame_pos,
                   player_stopped, outcome>>
    /\ UNCHANGED <<filterVars, movieVars, pagerVars, timeBarVars, spliceVars, serverVars>>

\* handle() lines 113-115: the player is created and play() begins.
PlayStart ==
    /\ pc = "play_start"
    /\ phase' = "Playback"
    /\ frame_pos' = 0
    /\ player_stopped' = FALSE
    /\ pc' = "play_frame"
    /\ UNCHANGED <<dialogue_options, peer_gone, io_log, rfile, response, second,
                   dialogueVars, visitor, adventure_runs, notified, outcome>>
    /\ UNCHANGED <<filterVars, movieVars, pagerVars, timeBarVars, spliceVars, serverVars>>

\* TelnetRequestHandler.draw_frame, lines 210-219: the frame is written; a
\* write that fails with EPIPE is caught and stops the player.
DrawFrameWithoutStop(gone) == [written |-> ~gone, stop |-> FALSE]

DrawFrame(gone) == [written |-> ~gone, stop |-> gone]

\* VT100Player.play, one frame: the frame is rendered through draw_frame.
PlayRender ==
    /\ pc = "play_frame"
    /\ ~player_stopped
    /\ frame_pos < Len(frames)
    /\ io_log' = Append(io_log, Written(phase, "frame", frame_pos + 1))
    /\ player_stopped' = DrawFrame(peer_gone).stop
    /\ pc' = IF DrawFrame(peer_gone).stop THEN "play_frame" ELSE "play_wait"
    /\ UNCHANGED <<dialogue_options, phase, peer_gone, rfile, response, second,
                   dialogueVars, visitor, adventure_runs, notified, frame_pos,
                   outcome>>
    /\ UNCHANGED <<filterVars, movieVars, pagerVars, timeBarVars, spliceVars, serverVars>>

\* VT100Player.play, one frame: the wait of the frame's display time.
PlayWait ==
    /\ pc = "play_wait"
    /\ io_log' = Append(io_log,
          Slept(phase, "frame", frames[frame_pos + 1].display_time))
    /\ frame_pos' = frame_pos + 1
    /\ pc' = "play_frame"
    /\ UNCHANGED <<dialogue_options, phase, peer_gone, rfile, response, second,
                   dialogueVars, visitor, adventure_runs, notified, player_stopped,
                   outcome>>
    /\ UNCHANGED <<filterVars, movieVars, pagerVars, timeBarVars, spliceVars, serverVars>>

\* play() returns, after the last frame or stopped; handle() lines 116-117.
PlayReturnAlwaysParting ==
    /\ pc = "play_frame"
    /\ player_stopped \/ frame_pos = Len(frames)
    /\ io_log' = Append(io_log, Written(phase, "CRLF", 0))
    /\ IF peer_gone THEN Raise("BrokenPipeError")
       ELSE pc' = "parting_run" /\ UNCHANGED outcome
    /\ UNCHANGED <<dialogue_options, phase, peer_gone, rfile, response, second,
                   dialogueVars, visitor, adventure_runs, notified, frame_pos,
                   player_stopped>>
    /\ UNCHANGED <<filterVars, movieVars, pagerVars, timeBarVars, spliceVars, serverVars>>

PlayReturn ==
    /\ pc = "play_frame"
    /\ player_stopped \/ frame_pos = Len(frames)
    /\ io_log' = Append(io_log, Written(phase, "CRLF", 0))
    /\ IF peer_gone THEN Raise("BrokenPipeError")
       ELSE IF Truthy(dialogue_options)
         THEN pc' = "parting_run" /\ UNCHANGED outcome
         ELSE pc' = "done" /\ outcome' = "completed"
    /\ UNCHANGED <<dialogue_options, phase, peer_gone, rfile, response, second,
                   dialogueVars, visitor, adventure_runs, notified, frame_pos,
                   player_stopped>>
    /\ UNCHANGED <<filterVars, movieVars, pagerVars, timeBarVars, spliceVars, serverVars>>

\* prompt_for_parting_message, line 231.
PartingRun ==
    /\ pc = "parting_run"
    /\ IF dialogue_options = NoDialogue
         THEN /\ Raise("AttributeError")
              /\ phase' = "PartingDialogue"
              /\ UNCHANGED <<conversation, node, answers>>
         ELSE RunConversation("PartingDialogue", "parting_message")
    /\ UNCHANGED <<dialogue_options, peer_gone, io_log, rfile, response, second, results,
                   repeats, visitor, adventure_runs, notified, frame_pos,
                   player_stopped>>
    /\ UNCHANGED <<filterVars, movieVars, pagerVars, timeBarVars, spliceVars, serverVars>>

\* prompt_for_parting_message, lines 232-234, and the end of handle().
PartingResolved ==
    /\ pc = "resolved"
    /\ conversation = "parting_message"
    /\ IF HasInput(results)
         THEN /\ notified' = Append(notified, "Parting message received")
              /\ pc' = "done"
              /\ outcome' = "completed"
         ELSE /\ Raise("KeyError")
              /\ UNCHANGED notified
    /\ UNCHANGED <<dialogue_options, phase, peer_gone, io_log, rfile, response, second,
                   dialogueVars, visitor, adventure_runs, frame_pos, player_stopped>>
    /\ UNCHANGED <<filterVars, movieVars, pagerVars, timeBarVars, spliceVars, serverVars>>

\* The peer closes the connection while the handler runs.
PeerDisconnect ==
    /\ pc \notin {"idle", "done"}
    /\ ~peer_gone
    /\ peer_gone' = TRUE
    /\ UNCHANGED <<dialogue_options, pc, phase, io_log, rfile, response, second,
                   dialogueVars, visitor, adventure_runs, notified, frame_pos,
                   player_stopped, outcome>>
    /\ UNCHANGED <<filterVars, movieVars, pagerVars, timeBarVars, spliceVars, serverVars>>

(***************************************************************************)
(* Dialogue.run called on its own, with the handler's prompt and output    *)
(* as the two functions, on enumerated conversations.                      *)
(***************************************************************************)
\* Most keys of an enumerated response dict.
MaxItems == 2

ItemValues == {Output("ok"), Output("bye"), StrValue("done"), Repeat}

DialogueItems ==
    {Item(k.anchored, k.literal, v) :
        k \in {[anchored |-> TRUE, literal |-> Str(<<"y">>)],
               [anchored |-> TRUE, literal |-> Str(<<"n">>)],
               [anchored |-> FALSE, literal |-> Str(<<"o">>)]},
        v \in ItemValues}

\* The lists of items a dict can hold: no key twice.
ItemLists ==
    {items \in BoundedSeq(DialogueItems, MaxItems) :
        \A i \in 1..Len(items) : \A j \in 1..Len(items) :
            (items[i].anchored = items[j].anchored
               /\ items[i].literal = items[j].literal) => i = j}

\* The Prompt of the spec's example: ^y -> Output("ok"), ^n -> Repeat,
\* default Output("ok").
ExamplePrompt ==
    Prompt("continue?",
           Dict(<<Item(TRUE, Str(<<"y">>), Output("ok")),
                  Item(TRUE, Str(<<"n">>), Repeat)>>),
           Output("ok"))

FlatPrompts ==
    {Prompt("continue?", Dict(items), default) :
        items \in ItemLists, default \in {None, Output("ok"), Output("bye"), Repeat}}
    \cup {Prompt("continue?", Output("ok"), None),
          Prompt("continue?", StrValue("done"), Output("bye")),
          Prompt("continue?", Repeat, Output("bye")),
          Prompt("continue?", Repeat, None)}

InnerPrompts ==
    {ExamplePrompt,
     Prompt("continue?", Dict(<<Item(TRUE, Str(<<"n">>), Repeat)>>), StrValue("done")),
     Prompt("continue?", Dict(<<Item(TRUE, Str(<<"y">>), Output("ok"))>>), None)}

NestedPrompts ==
    {Prompt("outer?", Dict(<<Item(TRUE, Str(<<"n">>), Repeat),
                             Item(FALSE, Str(<<"e">>), inner)>>), Output("bye")) :
        inner \in InnerPrompts}
    \cup {Prompt("outer?", inner, None) : inner \in InnerPrompts}

DialogueTrees ==
    FlatPrompts \cup NestedPrompts \cup {Output("ok"), StrValue("done"), None}

\* A Dialogue with the one conversation "talk", about to be run.
DialogueInit ==
    /\ dialogue_options \in
          {[type |-> "Dialogue", conversations |-> [talk |-> t]] : t \in DialogueTrees}
    /\ pc = "talk_run"
    /\ phase = ""
    /\ peer_gone = FALSE
    /\ io_log = <<>>
    /\ rfile = <<>>
    /\ response = Unbound
    /\ second = 0
    /\ conversation = ""
    /\ node = None
    /\ answers = <<>>
    /\ results = None
    /\ repeats = 0
    /\ visitor = Unbound
    /\ adventure_runs = 0
    /\ notified = <<>>
    /\ frame_pos = 0
    /\ player_stopped = FALSE
    /\ outcome = ""

\* Dialogue.run('talk', prompt, output), prompt_resolver.py:66-67.
TalkRun ==
    /\ pc = "talk_run"
    /\ RunConversation("Dialogue", "talk")
    /\ UNCHANGED <<dialogue_options, peer_gone, io_log, rfile, response, second,
                   results, repeats, visitor, adventure_runs, notified, frame_pos,
                   player_stopped>>
    /\ UNCHANGED <<filterVars, movieVars, pagerVars, timeBarVars, spliceVars, serverVars>>

DialogueNext ==
    TalkRun \/ ResolveAsk \/ ResolveRead \/ ResolveOutput \/ ResolveValue

(***************************************************************************)
(* TelnetRequestHandler.output and _output_long_text, ascii_server.py:     *)
(* 158-178 and 243-274.  A str is the sequence of its pieces: a word (a    *)
(* run of characters without white space), " ", "\n", or "\r\n".           *)
(***************************************************************************)
\* Most lines of an enumerated text.
MaxTextLines == 10

Words == <<"l1", "l2", "l3", "l4", "l5", "l6", "l7", "l8", "l9", "l10", "l11", "l12">>

\* s.split(sep) for a one-piece separator: the pieces between the
\* separators, an empty last one when s ends with sep.
Split(s, sep) ==
    LET at == {i \in 1..Len(s) : s[i] = sep}
        nth(k) == CHOOSE i \in at : Cardinality({j \in at : j <= i}) = k
    IN [k \in 1..(Cardinality(at) + 1) |->
          SubSeq(s, IF k = 1 THEN 1 ELSE nth(k - 1) + 1,
                    IF k = Cardinality(at) + 1 THEN Len(s) ELSE nth(k) - 1)]

\* str.splitlines(): as split("\n"), without the empty piece after a last
\* line break, and no line at all for the empty str.
SplitLines(s) ==
    IF s = <<>> THEN <<>>
    ELSE IF s[Len(s)] = "\n" THEN Split(SubSeq(s, 1, Len(s) - 1), "\n")
    ELSE Split(s, "\n")

\* sep.join(parts[:k]).
RECURSIVE JoinFirst(_, _, _)
JoinFirst(parts, sep, k) ==
    IF k = 0 THEN <<>>
    ELSE IF k = 1 THEN parts[1]
    ELSE JoinFirst(parts, sep, k - 1) \o <<sep>> \o parts[k]

\* sep.join(parts).
Join(parts, sep) == JoinFirst(parts, sep, Len(parts))

\* textwrap.wrap(line, width, replace_whitespace=False) for a line shorter
\* than the width: the line without the white space at its end, and no line
\* at all when nothing is left.
DropTrailingSpace(line) ==
    SubSeq(line, 1, Max({0} \cup {i \in 1..Len(line) : line[i] # " "}))

Wrap(line) ==
    IF DropTrailingSpace(line) = <<>> THEN <<>> ELSE <<DropTrailingSpace(line)>>

\* Lines 161-166: the wrapped lines of all lines, '' for an empty line.
RECURSIVE WrappedFirst(_, _)
WrappedFirst(ls, k) ==
    IF k = 0 THEN <<>>
    ELSE WrappedFirst(ls, k - 1) \o (IF ls[k] # <<>> THEN Wrap(ls[k]) ELSE <<<<>>>>)

WrappedLines(ls) == WrappedFirst(ls, Len(ls))

\* str.endswith(piece).
EndsWith(s, piece) == s # <<>> /\ s[Len(s)] = piece

\* Lines 167-169: the wrapped lines joined, with the space that wrapping
\* took from the end of the text.
Joined(wrapped_lines, endswith_space) ==
    IF endswith_space THEN Append(Join(wrapped_lines, "\r\n"), " ")
    ELSE Join(wrapped_lines, "\r\n")

\* Lines 170-171: the line break ensured at the end.
EnsureReturn(wrapped, at_end) ==
    IF at_end /\ ~EndsWith(wrapped, "\r\n") THEN Append(wrapped, "\r\n") ELSE wrapped

\* str.count('\r\n').
Count(s, piece) == Cardinality({i \in 1..Len(s) : s[i] = piece})

\* Line 173.
LineCount(wrapped) == Count(wrapped, "\r\n")

\* Line 245.
WindowSize == dimensions.screen_height - 4

\* lines[a:] and lines[:b] of Python, for indexes from 0 that are in range.
SliceFrom(ls, a) == SubSeq(ls, a + 1, Len(ls))
SliceTo(ls, b) == SubSeq(ls, 1, b)

\* scroll_down, lines 251-255, leaving current_index as it is.
ScrollDownWithoutAdvance(ls, win, index) ==
    [window |-> Append(Tail(win), ls[index + 1]), current_index |-> index]

\* scroll_down, lines 251-255: indexes count from 0.
ScrollDown(ls, win, index) ==
    [window |-> Append(Tail(win), ls[(index + 1) + 1]), current_index |-> index + 1]

\* Lines 268-270: the answer 'bottom'.
JumpToBottom(ls) ==
    [window |-> SliceFrom(ls, (Len(ls) - 1) - WindowSize),
     current_index |-> Len(ls) - 1]

\* The texts handed to output(): lines of one word each, with or without a
\* line break or a space at the end, one of them with an empty line.
RECURSIVE WordLines(_)
WordLines(n) == IF n = 0 THEN <<>> ELSE Append(WordLines(n - 1), <<Words[n]>>)

PagerTexts ==
    {Join(WordLines(n), "\n") \o tail :
        n \in 1..MaxTextLines, tail \in {<<>>, <<"\n">>, <<" ">>}}
    \cup {<<"l1", "\n", "\n">> \o Join(WordLines(n), "\n") : n \in 1..(MaxTextLines - 2)}

\* What the peer may send in answer to the pager's prompt.
PagerSent == {Line(<<>>), Line(<<"b", "o", "t", "t", "o", "m">>), Line(<<"n", "o">>)}

\* What prompt() returns for them, lines 180-187.
PagerAnswers == {PromptResult(sent, DefaultMaxBytesIn) : sent \in PagerSent}

\* The frame heights of the movies served while output() is called.
PagerFrameHeights == {5, 6}

\* The movie served while output() is called: one from a .yaml file whose
\* first frame set the frame height.
PagerMovieServed ==
    /\ frames = ServedMovie
    /\ loaded_frames = ServedMovie
    /\ before_compress = ServedMovie
    /\ compress_calls = 1
    /\ movie_error = ""
    /\ loaded = TRUE
    /\ load_result = "True"
    /\ load_calls = 1
    /\ dimensions \in {set_frame_dimensions(NewMovieDimensions, DefaultFrameWidth, h) :
                           h \in PagerFrameHeights}

PagerIdle ==
    /\ out_text = <<>>
    /\ return_at_end = TRUE
    /\ pager_pc = "idle"
    /\ lines = <<>>
    /\ window = <<>>
    /\ current_index = 0
    /\ written = <<>>

\* output(output_text, return_at_end) is about to run.
PagerInit ==
    /\ out_text \in PagerTexts
    /\ return_at_end \in BOOLEAN
    /\ pager_pc = "output"
    /\ lines = <<>>
    /\ window = <<>>
    /\ current_index = 0
    /\ written = <<>>

\* output(), lines 159-178, up to the first lines of _output_long_text
\* (244-249) when the text is long.
OutputCall ==
    /\ pager_pc = "output"
    /\ \E wrapped_lines \in {WrappedLines(SplitLines(out_text))} :
       \E joined \in {Joined(wrapped_lines, EndsWith(out_text, " "))} :
       \E wrapped \in {EnsureReturn(joined, return_at_end)} :
          IF LineCount(wrapped) > dimensions.screen_height
            THEN \E long_lines \in {Split(wrapped, "\r\n")} :
                   /\ lines' = long_lines
                   /\ window' = SliceTo(long_lines, WindowSize)
                   /\ current_index' = Len(SliceTo(long_lines, WindowSize)) - 1
                   /\ pager_pc' = "window"
                   /\ UNCHANGED written
            ELSE /\ written' = Append(written, [kind |-> "text", text |-> wrapped])
                 /\ pager_pc' = "done"
                 /\ UNCHANGED <<lines, window, current_index>>
    /\ UNCHANGED <<out_text, return_at_end>>
    /\ UNCHANGED <<filterVars, movieVars, sessionVars, timeBarVars, spliceVars, serverVars>>

\* _output_long_text, lines 258-263 and 273-274: the window is written.
PageWrite ==
    /\ pager_pc = "window"
    /\ written' = Append(written, [kind |-> "window", text |-> window])
    /\ pager_pc' = IF current_index < Len(lines) - 1 THEN "scroll" ELSE "done"
    /\ UNCHANGED <<out_text, return_at_end, lines, window, current_index>>
    /\ UNCHANGED <<filterVars, movieVars, sessionVars, timeBarVars, spliceVars, serverVars>>

\* _output_long_text, lines 264-272: the prompt and what its answer does.
PageScroll ==
    /\ pager_pc = "scroll"
    /\ \E answer \in PagerAnswers :
       \E moved \in {IF Contains(Str(<<"b", "o", "t", "t", "o", "m">>), answer)
                        THEN JumpToBottom(lines)
                        ELSE ScrollDown(lines, window, current_index)} :
         /\ window' = moved.window
         /\ current_index' = moved.current_index
         /\ written' = Append(written, [kind |-> "prompt", text |-> answer])
    /\ pager_pc' = "window"
    /\ UNCHANGED <<out_text, return_at_end, lines>>
    /\ UNCHANGED <<filterVars, movieVars, sessionVars, timeBarVars, spliceVars, serverVars>>

PagerNext == OutputCall \/ PageWrite \/ PageScroll

(***************************************************************************)
(* TimeBar, ascii_movie.py:80-147.                                         *)
(***************************************************************************)
\* Longest time bar and longest movie enumerated.
MaxBarLength == 8
MaxDuration == 6

\* The decorators and the marker that __init__ takes by default, line 83.
LeftDecorator == "<"
RightDecorator == ">"
Marker == "o"

Spacer == " "

\* The decorators a TimeBar is made with: none, the default, a longer one.
LeftDecorators == {"", LeftDecorator, "[<"}
RightDecorators == {"", RightDecorator, ">]"}

\* Lines 96-104: the fields of a TimeBar.
TimeBar(duration, length, left_decorator, right_decorator) ==
    [length |-> length, duration |-> duration,
     left_decorator |-> left_decorator, right_decorator |-> right_decorator,
     marker |-> Marker,
     internal_length |-> length - Len(left_decorator) - Len(right_decorator)]

\* Lines 106-109: __init__ raises ValueError.
TooShort(length, left_decorator, right_decorator) ==
    Len(left_decorator \o right_decorator \o Marker) > length

\* u"{0:{spacer}>{length}}".format(u"", ...), line 113: `length` spacers.
RECURSIVE Fill(_)
Fill(length) == IF length <= 0 THEN "" ELSE Spacer \o Fill(length - 1)

\* _empty_timebar, lines 111-115.
EmptyTimebar(tb) == tb.left_decorator \o Fill(tb.internal_length) \o tb.right_decorator

\* round(n / d, 0) for whole n and d, as Python rounds an exact quotient: a
\* half goes to the even neighbour.
RoundHalfEven(n, d) ==
    LET down == n \div d
    IN IF 2 * (n % d) < d THEN down
       ELSE IF 2 * (n % d) > d THEN down + 1
       ELSE IF down % 2 = 0 THEN down ELSE down + 1

\* get_marker_postion, line 128.  internal_length / duration * frame_num is
\* a product of doubles: it is off the exact quotient by less than any
\* distance to a half that is not exact, so round() gives the nearest whole
\* number; at an exact half the product may fall on either side of it and
\* round() gives either neighbour.
get_marker_postion(tb, frame_num) ==
    LET n == tb.internal_length * frame_num
    IN IF 2 * (n % tb.duration) = tb.duration
         THEN {n \div tb.duration, (n \div tb.duration) + 1}
         ELSE {RoundHalfEven(n, tb.duration)}

\* get_timebar without lines 141-143.
UnclampedMarker(tb, marker_pos) == marker_pos

\* get_timebar, lines 141-143: the position the marker is drawn at.
ClampedMarker(tb, marker_pos) ==
    IF marker_pos >= tb.internal_length THEN tb.internal_length - 1 ELSE marker_pos

\* get_timebar, lines 145-147: the str returned for a marker_pos.
Rendered(tb, marker_pos) ==
    SliceTo(EmptyTimebar(tb), marker_pos + Len(tb.left_decorator))
      \o tb.marker
      \o SliceFrom(EmptyTimebar(tb), marker_pos + Len(tb.right_decorator) + 1)

TimeBarIdle ==
    /\ time_bar = TimeBar(1, Len(LeftDecorator \o RightDecorator \o Marker),
                          LeftDecorator, RightDecorator)
    /\ bar_frame = 0
    /\ marker_log = <<>>

\* TimeBar(duration, length, left_decorator, " ", right_decorator) has
\* returned.
NewTimeBar ==
    /\ \E duration \in 1..MaxDuration, length \in 1..MaxBarLength,
          left_decorator \in LeftDecorators, right_decorator \in RightDecorators :
         /\ ~TooShort(length, left_decorator, right_decorator)
         /\ time_bar = TimeBar(duration, length, left_decorator, right_decorator)
    /\ bar_frame = 0
    /\ marker_log = <<>>

\* get_timebar(frame_num), lines 139-147, for the frame numbers in order.
GetTimebar ==
    /\ bar_frame <= time_bar.duration
    /\ \E marker_pos \in get_marker_postion(time_bar, bar_frame) :
         marker_log' = Append(marker_log,
                              [frame_num |-> bar_frame,
                               position |-> marker_pos,
                               marker_pos |-> ClampedMarker(time_bar, marker_pos),
                               timebar |-> Rendered(time_bar,
                                                    ClampedMarker(time_bar, marker_pos))])
    /\ bar_frame' = bar_frame + 1
    /\ UNCHANGED time_bar
    /\ UNCHANGED <<filterVars, movieVars, sessionVars, pagerVars, spliceVars, serverVars>>

TimeBarNext == GetTimebar

(***************************************************************************)
(* Movie.splice_in_text, ascii_movie.py:279-321.                           *)
(***************************************************************************)
\* Frames of a movie that takes subtitles, lines of a subtitle file, and the
\* largest number of seconds, enumerated.
MaxSpliceFrames == 4
MaxSubtitles == 3
MaxSlideSeconds == 2

\* Frame.DISPLAY_PER_SECONDS.
DISPLAY_PER_SECONDS == 15

\* The display times of the frames: less than a second, a second.
SpliceDisplayTimes == {8, DISPLAY_PER_SECONDS}

\* A line of the subtitle file: the number of its '|', the whole number
\* before the first of them, the text after it.
SubtitleLines ==
    {[bars |-> 0, seconds |-> 0, text |-> "s"], [bars |-> 2, seconds |-> 1, text |-> "s"]}
    \cup {[bars |-> 1, seconds |-> n, text |-> "t"] : n \in 0..MaxSlideSeconds}

\* The movies that take subtitles: loaded and compressed, so that no two
\* neighbours hold the same lines.
SpliceMovies ==
    {[i \in 1..MaxSpliceFrames |->
        Frame(IF i % 2 = 1 THEN <<"x">> ELSE <<"y">>, t[i])] :
       t \in [1..MaxSpliceFrames -> SpliceDisplayTimes]}

\* str.center(width) of CPython.
Center(text, width) ==
    IF width <= Len(text) THEN text
    ELSE LET pad == width - Len(text)
             left == (pad \div 2) + (IF pad % 2 = 1 /\ width % 2 = 1 THEN 1 ELSE 0)
         IN Fill(left) \o text \o Fill(pad - left)

\* _format_spliced_line, lines 295-306, for a line no longer than the frame
\* is wide.
FormatSplicedLine(text, frame_width) ==
    <<BackBlack \o ForeWhite \o Center(text, frame_width) \o ResetAll>>

\* _splice_line_into_frames, lines 289-291, with a seconds_per_slide that
\* stays what the last prefix made it.
SlideSecondsKept(line, per_slide) ==
    IF line.bars = 1 THEN line.seconds
    ELSE IF splice_log # <<>> THEN splice_log[Len(splice_log)].seconds
    ELSE per_slide

\* _splice_line_into_frames, lines 289-291: the seconds_per_slide handed to
\* _add_lines_to_required_frames.
SlideSeconds(line, per_slide) ==
    IF line.bars = 1 THEN line.seconds ELSE per_slide

\* The display_time of the first k frames after the iterator's position.
RECURSIVE Ticks(_, _, _)
Ticks(fs, start, k) ==
    IF k = 0 THEN 0 ELSE Ticks(fs, start, k - 1) + fs[start + k].display_time

\* The loop of _add_lines_to_required_frames, lines 314-321: how many frames
\* it may take before accumulated_time < seconds_per_slide fails, and whether
\* next() raises StopIteration first.  accumulated_time is a sum of doubles
\* display_time / 15: when the exact sum equals seconds_per_slide the double
\* may lie just below it (fifteen times 1/15 is 0.9999999999999999), and the
\* loop then takes one frame more.
LoopRuns(fs, start, seconds) ==
    LET left == Len(fs) - start
        enough(k) == Ticks(fs, start, k) >= DISPLAY_PER_SECONDS * seconds
        exact(k) == k > 0 /\ Ticks(fs, start, k) = DISPLAY_PER_SECONDS * seconds
        goes_on(k) == \A j \in 0..(k - 1) : ~enough(j) \/ exact(j)
    IN {[taken |-> k, stopped |-> FALSE] : k \in {j \in 0..left : goes_on(j) /\ enough(j)}}
       \cup (IF goes_on(left) /\ (~enough(left) \/ exact(left))
               THEN {[taken |-> left, stopped |-> TRUE]} ELSE {})

\* Lines 316-320 for the frames from..to: the lines added and the frame
\* dimensions set anew for every frame that is higher than the frames were.
RECURSIVE Extended(_, _, _, _, _)
Extended(fs, d, from, to, formatted_lines) ==
    IF from > to THEN [frames |-> fs, dimensions |-> d]
    ELSE LET frame == Frame(fs[from].data \o formatted_lines, fs[from].display_time)
         IN Extended([fs EXCEPT ![from] = frame],
                     IF FrameDimensions(frame).height > d.frame_height
                       THEN set_frame_dimensions(d, FrameDimensions(frame).width,
                                                 FrameDimensions(frame).height)
                       ELSE d,
                     from + 1, to, formatted_lines)

SpliceIdle ==
    /\ subtitles = <<>>
    /\ seconds_per_slide = 1
    /\ line_pos = 0
    /\ frame_iterator = 0
    /\ splice_log = <<>>
    /\ splice_error = ""

\* splice_in_text(text_file_path, seconds_per_slide) is about to read the
\* first line of the file.
SpliceInit ==
    /\ subtitles \in UNION {[1..n -> SubtitleLines] : n \in 1..MaxSubtitles}
    /\ seconds_per_slide \in 1..MaxSlideSeconds
    /\ line_pos = 0
    /\ frame_iterator = 0
    /\ splice_log = <<>>
    /\ splice_error = ""

\* The movie that make_movie loaded from the .yaml file.
SpliceMovieLoaded ==
    /\ frames \in SpliceMovies
    /\ loaded_frames = frames
    /\ before_compress = frames
    /\ compress_calls = 1
    /\ movie_error = ""
    /\ loaded = TRUE
    /\ load_result = "True"
    /\ load_calls = 1
    /\ dimensions = set_frame_dimensions(NewMovieDimensions,
                                         FrameDimensions(frames[1]).width,
                                         FrameDimensions(frames[1]).height)

\* One turn of the loop of splice_in_text, lines 282-285, with the whole of
\* _splice_line_into_frames.
SpliceLine ==
    /\ splice_error = ""
    /\ line_pos < Len(subtitles)
    /\ line_pos' = line_pos + 1
    /\ LET line == subtitles[line_pos + 1]
           seconds == SlideSeconds(line, seconds_per_slide)
       IN IF line.bars > 1
            THEN \* line 290: split('|') gives more than two pieces
                 /\ splice_error' = "ValueError"
                 /\ UNCHANGED <<frames, dimensions, frame_iterator, splice_log>>
            ELSE \E run \in LoopRuns(frames, frame_iterator, seconds) :
                 \E after \in {Extended(frames, dimensions, frame_iterator + 1,
                                        frame_iterator + run.taken,
                                        FormatSplicedLine(line.text,
                                                          dimensions.frame_width))} :
                   /\ frames' = after.frames
                   /\ dimensions' = after.dimensions
                   /\ frame_iterator' = frame_iterator + run.taken
                   /\ splice_log' = Append(splice_log,
                                           [line |-> line_pos + 1,
                                            seconds |-> seconds,
                                            first |-> frame_iterator + 1,
                                            taken |-> run.taken,
                                            ticks |-> Ticks(frames, frame_iterator,
                                                            run.taken)])
                   /\ splice_error' = IF run.stopped THEN "ValueError" ELSE ""
    /\ UNCHANGED <<subtitles, seconds_per_slide>>
    /\ UNCHANGED <<loaded_frames, before_compress, compress_calls, movie_error,
                   loaded, load_result, load_calls>>
    /\ UNCHANGED <<filterVars, sessionVars, pagerVars, timeBarVars, serverVars>>

SpliceNext == SpliceLine

(***************************************************************************)
(* ThreadedTCPServer: one TelnetRequestHandler, in a thread of its own,    *)
(* per connection (ascii_server.py:38-39, 78-120); movie and               *)
(* dialogue_options are attributes of the class, set once by runTcpServer  *)
(* (ascii_telnet_server.py:77-78).  Each handler is followed from call to  *)
(* call of handle(); within a conversation only its first question is.     *)
(***************************************************************************)
\* The connections being handled.
Workers == {"w1", "w2"}

\* A handler that has just been made for its connection.
NewHandler ==
    [pc |-> "verify_is_human", phase |-> "", output |-> <<>>, peer_gone |-> FALSE,
     runs |-> 0, outcome |-> ""]

\* n entries of the phase ph.
RECURSIVE Entries(_, _)
Entries(ph, n) == IF n <= 0 THEN <<>> ELSE <<ph>> \o Entries(ph, n - 1)

\* self.wfile.write by every handler at once.
WriteToAll(hs, w, ph, n) ==
    [v \in DOMAIN hs |-> [hs[v] EXCEPT !.phase = ph, !.output = @ \o Entries(ph, n)]]

\* self.wfile.write, n times in phase ph, by the handler w: wfile is the
\* file of the handler's own socket.
WriteOwn(hs, w, ph, n) ==
    [hs EXCEPT ![w].phase = ph, ![w].output = @ \o Entries(ph, n)]

\* handle() of w ends: by return, by a caught BrokenPipeError, or by an
\* exception that leaves it.
Ended(hs, w, how) == [hs EXCEPT ![w].pc = "done", ![w].outcome = how]

\* A call of handle() that writes n times in phase ph and goes on at `to`;
\* the first write to a peer that is gone raises BrokenPipeError, which
\* lines 119-120 catch.
Called(hs, w, ph, n, to) ==
    IF hs[w].peer_gone
      THEN Ended(WriteOwn(hs, w, ph, 1), w, "peer_gone")
      ELSE [WriteOwn(hs, w, ph, n) EXCEPT ![w].pc = to]

\* Line 108 and line 117: a Dialogue is truthy, None is not.
AfterPriming == IF Truthy(dialogue_options) THEN "run_visitor_dialogue" ELSE "play"
AfterPlay == IF Truthy(dialogue_options) THEN "prompt_for_parting_message" ELSE "return"

\* Dialogue.run, prompt_resolver.py:66-67: self.conversations[name].
HasConversation(name) == name \in DOMAIN dialogue_options.conversations

ServerIdle == workers = [w \in Workers |-> [NewHandler EXCEPT !.pc = "done"]]

\* runTcpServer has set the attributes of the class and serve_forever has
\* accepted the connections.
ServerInit ==
    /\ dialogue_options \in {NoDialogue, TheDialogue, DialogueWithoutParting}
    /\ workers = [w \in Workers |-> NewHandler]

\* verify_is_human, line 222: the question is written and the handler
\* waits in readline.
HandleVerify(w) ==
    /\ workers[w].pc = "verify_is_human"
    /\ workers' = Called(workers, w, "HumanCheck", 1, "verify_read")
    /\ UNCHANGED <<filterVars, movieVars, sessionVars, pagerVars, timeBarVars, spliceVars>>

\* verify_is_human, lines 222-228: the reply has come.
HandleVerifyReply(w) ==
    /\ workers[w].pc = "verify_read"
    /\ \E sent \in {Line(<<"y", "e", "s">>), Line(<<"n", "o">>)} :
         workers' =
           IF IsHuman(PromptResult(sent, HumanMaxBytesIn))
             THEN Called(workers, w, "HumanCheck", 1, "prepare_for_screen_size")
             ELSE IF workers[w].peer_gone
               THEN Called(workers, w, "HumanCheck", 1, "done")
               ELSE Ended(WriteOwn(workers, w, "HumanCheck", 1), w, "nonhuman")
    /\ UNCHANGED <<filterVars, movieVars, sessionVars, pagerVars, timeBarVars, spliceVars>>

\* prepare_for_screen_size, lines 148-156: the announcement and three
\* writes for each second.
HandlePrepare(w) ==
    /\ workers[w].pc = "prepare_for_screen_size"
    /\ workers' = Called(workers, w, "Priming", 1 + 3 * CountdownFrom, AfterPriming)
    /\ UNCHANGED <<filterVars, movieVars, sessionVars, pagerVars, timeBarVars, spliceVars>>

\* run_visitor_dialogue, line 123, and prompt_for_parting_message, line 231:
\* the conversation is looked up in the class's dialogue_options and its
\* question is written.
HandleConversation(w) ==
    /\ workers[w].pc \in {"run_visitor_dialogue", "run_adventure",
                          "prompt_for_parting_message"}
    /\ LET name == IF workers[w].pc = "run_visitor_dialogue" THEN "visitor"
                   ELSE IF workers[w].pc = "run_adventure" THEN "adventure"
                   ELSE "parting_message"
           ph == IF name = "visitor" THEN "VisitorDialogue"
                 ELSE IF name = "adventure" THEN "Adventure" ELSE "Parting"
       IN workers' =
            IF ~HasConversation(name) THEN Ended(workers, w, "KeyError")
            ELSE Called(workers, w, ph, 1, name \o "_read")
    /\ UNCHANGED <<filterVars, movieVars, sessionVars, pagerVars, timeBarVars, spliceVars>>

\* run_visitor_dialogue, lines 124-129, and handle(), line 110: the name
\* has come.
HandleVisitorReply(w) ==
    /\ workers[w].pc = "visitor_read"
    /\ \E adventurer \in BOOLEAN :
         workers' = Called(workers, w, "VisitorDialogue", 1,
                           IF adventurer THEN "run_adventure" ELSE "play")
    /\ UNCHANGED <<filterVars, movieVars, sessionVars, pagerVars, timeBarVars, spliceVars>>

\* run_adventure, lines 133-146: the adventure is over and the visitor
\* answers whether to retry.
HandleAdventureReply(w) ==
    /\ workers[w].pc = "adventure_read"
    /\ \E retry \in BOOLEAN :
         /\ retry => workers[w].runs + 1 < MaxAdventureRuns
         /\ workers' = [Called(workers, w, "Adventure", 1,
                               IF retry THEN "run_adventure" ELSE "play")
                          EXCEPT ![w].runs = @ + 1]
    /\ UNCHANGED <<filterVars, movieVars, sessionVars, pagerVars, timeBarVars, spliceVars>>

\* handle(), lines 113-116: the player writes every frame of the class's
\* movie, then handle() writes the line break.
HandlePlay(w) ==
    /\ workers[w].pc = "play"
    /\ workers' = Called(workers, w, "Playback", Len(frames) + 1, AfterPlay)
    /\ UNCHANGED <<filterVars, movieVars, sessionVars, pagerVars, timeBarVars, spliceVars>>

\* handle() returns after line 116 when there is no dialogue.
HandleReturn(w) ==
    /\ workers[w].pc = "return"
    /\ workers' = Ended(workers, w, "completed")
    /\ UNCHANGED <<filterVars, movieVars, sessionVars, pagerVars, timeBarVars, spliceVars>>

\* prompt_for_parting_message, lines 232-234: the message has come.
HandlePartingReply(w) ==
    /\ workers[w].pc = "parting_message_read"
    /\ workers' = Ended(workers, w, "completed")
    /\ UNCHANGED <<filterVars, movieVars, sessionVars, pagerVars, timeBarVars, spliceVars>>

\* The peer of w closes its connection.
WorkerDisconnect(w) ==
    /\ workers[w].pc # "done"
    /\ ~workers[w].peer_gone
    /\ workers' = [workers EXCEPT ![w].peer_gone = TRUE]
    /\ UNCHANGED <<filterVars, movieVars, sessionVars, pagerVars, timeBarVars, spliceVars>>

ServerNext ==
    \E w \in Workers :
      \/ HandleVerify(w) \/ HandleVerifyReply(w) \/ HandlePrepare(w)
      \/ HandleConversation(w) \/ HandleVisitorReply(w) \/ HandleAdventureReply(w)
      \/ HandlePlay(w) \/ HandleReturn(w) \/ HandlePartingReply(w)
      \/ WorkerDisconnect(w)

Init == ServerIdle /\ SpliceIdle /\ TimeBarIdle /\ SessionInit /\ MovieServed /\ FilterIdle /\ PagerIdle

Next ==
    \/ VerifyAsk \/ VerifyRead \/ VerifyAnswer \/ VerifyReturn \/ VerifyRaise
    \/ PrimeIntro \/ PrimeClear \/ PrimeBox \/ PrimeCount
    \/ VisitorRun \/ ResolveAsk \/ ResolveRead \/ ResolveOutput \/ ResolveValue
    \/ VisitorResolved \/ ContinueAsk \/ ContinueRead
    \/ AdventureRun \/ AdventureResolved \/ RetryAsk \/ RetryRead
    \/ PlayStart \/ PlayRender \/ PlayWait \/ PlayReturn
    \/ PartingRun \/ PartingResolved
    \/ PeerDisconnect

Spec == Init /\ [][Next]_vars


FilterSpecInit == ServerIdle /\ SpliceIdle /\ TimeBarIdle /\ FilterInit /\ MovieIdle /\ SessionIdle /\ PagerIdle
MovieSpecInit == ServerIdle /\ SpliceIdle /\ TimeBarIdle /\ MovieInit /\ FilterIdle /\ SessionIdle /\ PagerIdle

LoadSpecInit == ServerIdle /\ SpliceIdle /\ TimeBarIdle /\ NewMovie /\ FilterIdle /\ SessionIdle /\ PagerIdle
DialogueSpecInit == ServerIdle /\ SpliceIdle /\ TimeBarIdle /\ DialogueInit /\ MovieServed /\ FilterIdle /\ PagerIdle
PagerSpecInit == ServerIdle /\ SpliceIdle /\ PagerInit /\ PagerMovieServed /\ FilterIdle /\ SessionIdle /\ TimeBarIdle
TimeBarSpecInit == ServerIdle /\ SpliceIdle /\ NewTimeBar /\ MovieIdle /\ FilterIdle /\ SessionIdle /\ PagerIdle
DimensionsSpecInit == ServerIdle /\ SpliceIdle /\ TimeBarIdle /\ DimensionsInit /\ FilterIdle /\ SessionIdle /\ PagerIdle
DimensionsSpec == DimensionsSpecInit /\ [][DimensionsNext]_vars
FilterSpec == FilterSpecInit /\ [][FilterNext]_vars
MovieSpec == MovieSpecInit /\ [][MovieNext]_vars
LoadSpec == LoadSpecInit /\ [][LoadNext]_vars
DialogueSpec == DialogueSpecInit /\ [][DialogueNext]_vars
SpliceSpecInit == ServerIdle /\ SpliceInit /\ SpliceMovieLoaded /\ FilterIdle /\ SessionIdle /\ PagerIdle /\ TimeBarIdle
ServerSpecInit == ServerInit /\ HandlerIdle /\ MovieServed /\ FilterIdle /\ PagerIdle /\ TimeBarIdle /\ SpliceIdle
ServerSpec == ServerSpecInit /\ [][ServerNext]_vars
SpliceSpec == SpliceSpecInit /\ [][SpliceNext]_vars
TimeBarSpec == TimeBarSpecInit /\ [][TimeBarNext]_vars
PagerSpec == PagerSpecInit /\ [][PagerNext]_vars /\ WF_vars(PagerNext)

(***************************************************************************)
(* Claims about the filter, checked under FilterSpec.                      *)
(***************************************************************************)
Returned == decoded # NotReturned

IsCommandByte(b) == 240 <= b /\ b <= 255
IsPrintableAscii(b) == 32 <= b /\ b <= 126

\* s is a subsequence of t: the elements of s occur in t in the same order.
RECURSIVE IsSubsequence(_, _)
IsSubsequence(s, t) ==
    IF s = <<>> THEN TRUE
    ELSE IF t = <<>> THEN FALSE
    ELSE IF Head(s) = Head(t) THEN IsSubsequence(Tail(s), Tail(t))
    ELSE IsSubsequence(s, Tail(t))

\* The reading of a chunk the claim C4 describes.  A byte below 240 that
\* belongs to no negotiation is genuine text.  SB opens a span that runs to
\* the next SE.  Any other command byte is followed either by a further
\* command byte (IAC WILL ...) or by its single option byte.  WellFormed
\* says that every negotiation of the chunk is complete, GenuineText is
\* the text bytes in order.
RECURSIVE WellFormed(_)
WellFormed(bs) ==
    IF bs = <<>> THEN TRUE
    ELSE IF ~IsCommandByte(Head(bs)) THEN WellFormed(Tail(bs))
    ELSE IF Head(bs) = SB
      THEN LET j == FirstAt(bs, SE, 2)
           IN j # 0 /\ WellFormed(SubSeq(bs, j + 1, Len(bs)))
    ELSE IF Len(bs) = 1 THEN FALSE
    ELSE IF IsCommandByte(bs[2]) THEN WellFormed(Tail(bs))
    ELSE WellFormed(SubSeq(bs, 3, Len(bs)))

RECURSIVE GenuineText(_)
GenuineText(bs) ==
    IF bs = <<>> THEN <<>>
    ELSE IF ~IsCommandByte(Head(bs)) THEN <<Head(bs)>> \o GenuineText(Tail(bs))
    ELSE IF Head(bs) = SB
      THEN LET j == FirstAt(bs, SE, 2)
           IN IF j = 0 THEN <<>> ELSE GenuineText(SubSeq(bs, j + 1, Len(bs)))
    ELSE IF Len(bs) = 1 THEN <<>>
    ELSE IF IsCommandByte(bs[2]) THEN GenuineText(Tail(bs))
    ELSE GenuineText(SubSeq(bs, 3, Len(bs)))

\* C3: for a chunk made only of printable ASCII bytes the filter returns
\* exactly the input: as many characters as bytes, the i-th character being
\* the i-th byte.
C3_PrintableUnchanged ==
    (Returned /\ \A i \in 1..Len(bytes_in) : IsPrintableAscii(bytes_in[i]))
        => /\ Len(decoded) = Len(bytes_in)
           /\ \A i \in 1..Len(bytes_in) : decoded[i] = bytes_in[i]

C3_Witness ==
    /\ Returned
    /\ bytes_in = <<65, 66, 73, 65>>
    /\ decoded = Str(<<"A", "B", "I", "A">>)

\* C4: for a chunk in which every command byte is followed by a complete
\* negotiation, the output holds no byte of 240..255 and holds every genuine
\* text byte of the input in the input's order.
C4_WellFormedKeepsText ==
    (Returned /\ WellFormed(bytes_in))
        => /\ \A i \in 1..Len(decoded) : ~IsCommandByte(decoded[i])
           /\ IsSubsequence(GenuineText(bytes_in), decoded)

\* A chunk with a closed subnegotiation span and text after it.
C4_Witness ==
    /\ Returned
    /\ bytes_in = <<SB, 1, SE, 65>>
    /\ WellFormed(bytes_in)
    /\ GenuineText(bytes_in) = <<65>>
    /\ decoded = Str(<<"A">>)

\* C5 as stated: filtering [73, 252, 1, 65, 66] yields exactly "AB".
C5_ExampleYieldsAB ==
    (Returned /\ bytes_in = ExampleChunk) => decoded = Str(<<"A", "B">>)

\* C5 amended: filtering [73, 252, 1, 65, 66] yields exactly "IAB": byte 73
\* is the printable character "I" and is kept, the command 252 and its
\* option byte 1 are removed.
C5_ExampleYieldsIAB ==
    (Returned /\ bytes_in = ExampleChunk) => decoded = Str(<<"I", "A", "B">>)

C5_Witness == Returned /\ bytes_in = ExampleChunk

\* A subnegotiation span is open after the first k bytes of bs: an SB among
\* them with no SE after it.
OpenSpan(bs, k) ==
    \E i \in 1..k : bs[i] = SB /\ \A j \in (i + 1)..k : bs[j] # SE

\* The k-th byte of bs is the SE that closes a span.
ClosesSpan(bs, k) == k >= 2 /\ bs[k] = SE /\ OpenSpan(bs, k - 1)

\* The loop scans one byte in this step.
ScansByte == decoded = NotReturned /\ scan_pos' = scan_pos + 1

\* C25: once an SB has been scanned, every byte up to and including the
\* next SE is discarded, whatever its value; the byte scanned right after
\* that SE is kept when it is no command byte.
C25_SpanDiscardedToItsEnd ==
    [][ScansByte =>
         /\ OpenSpan(bytes_in, scan_pos) => real_text_bytes' = real_text_bytes
         /\ (ClosesSpan(bytes_in, scan_pos)
               /\ ~IsCommandByte(bytes_in[scan_pos + 1]))
              => real_text_bytes' = Append(real_text_bytes, bytes_in[scan_pos + 1])
       ]_vars

C25_Witness ==
    /\ Returned
    /\ bytes_in = <<SB, IAC, SE, 65>>
    /\ decoded = <<65>>

\* C26 as stated: after the loop has scanned byte i, last_byte is that
\* byte, for every i.
C26_PreviousIsEveryScannedByte ==
    scan_pos >= 1 => last_byte = bytes_in[scan_pos]

\* C26 amended: after the loop has scanned byte i, last_byte is that byte,
\* kept or discarded, unless the byte is payload of an open span: the
\* payload is skipped without the assignment and last_byte stays SB until
\* the SE that closes the span.
C26_PreviousIsScannedByteOrSpanBegin ==
    scan_pos >= 1 =>
        last_byte = IF OpenSpan(bytes_in, scan_pos) THEN SB
                    ELSE bytes_in[scan_pos]

C26_Witness ==
    /\ scan_pos = 3
    /\ SubSeq(bytes_in, 1, 3) = <<65, SB, 66>>
    /\ real_text_bytes = <<65>>
    /\ last_byte = SB

\* C27: every call returns the text that a scan of its own chunk from the
\* initial locals gives, whatever the call before it ended with: after
\* IAC, after a two-byte command or inside an open span.
C27_ResultOfChunkAlone ==
    Returned => decoded = get_text_from_raw_bytes(bytes_in)

C27_Witness ==
    /\ Returned
    /\ prior_last_byte = SB
    /\ bytes_in = <<65>>
    /\ decoded = <<65>>

\* str.encode('ISO-8859-1'), as at ascii_server.py:177: the character of
\* code point c, at most 255, becomes the byte c.
EncodeLatin1(text) == [i \in 1..Len(text) |-> text[i]]

\* C30: the text returned holds no command byte 240..255 and is a
\* subsequence of the chunk in the chunk's order; the filter applied to the
\* returned text returns it unchanged.
C30_NoCommandByteSubsequenceIdempotent ==
    Returned =>
        /\ \A i \in 1..Len(decoded) : ~IsCommandByte(decoded[i])
        /\ IsSubsequence(decoded, bytes_in)
        /\ get_text_from_raw_bytes(EncodeLatin1(decoded)) = decoded

C30_Witness ==
    /\ Returned
    /\ bytes_in = <<65, IAC, IAC, 66>>
    /\ decoded = <<65>>

(***************************************************************************)
(* Claims about Movie.compress, checked under MovieSpec.                   *)
(***************************************************************************)
TotalTime(fs) == SumTimes(fs, 1, Len(fs))

\* C9: compress is idempotent and keeps the total time: a second compress()
\* leaves the frame list (data and display times) as the first one made it,
\* and after any compress() the summed display time is the one loaded.
C9_CompressIdempotentKeepsTime ==
    /\ compress_calls >= 1 => TotalTime(frames) = TotalTime(loaded_frames)
    /\ compress_calls >= 2 => frames = before_compress

\* Two compress() calls on a movie of which the first one merged frames.
C9_Witness ==
    /\ compress_calls = 2
    /\ Len(loaded_frames) = 4
    /\ Len(frames) = 2
    /\ frames = before_compress
    /\ TotalTime(frames) > TotalTime(<<frames[1]>>) + 1

\* The positions at which a run of frames with identical data starts, and
\* the last position of the run that starts at i.
RunStarts(fs) == {i \in 1..Len(fs) : i = 1 \/ fs[i].data # fs[i - 1].data}

RunEnd(fs, i) ==
    CHOOSE j \in i..Len(fs) :
        /\ \A k \in i..j : fs[k].data = fs[i].data
        /\ j = Len(fs) \/ fs[j + 1].data # fs[i].data

\* C10: compress replaces every maximal run of consecutive frames with
\* identical data by one frame with the run's data and the sum of its
\* display times, in the order of the runs; no two adjacent frames of the
\* result have identical data; frames <"x",1>, <"x",2> become <"x",3>.
C10_CompressIsRunLength ==
    compress_calls >= 1 =>
        LET before == before_compress
            starts == SortedSeq(RunStarts(before))
        IN /\ Len(frames) = Len(starts)
           /\ \A k \in 1..Len(starts) :
                /\ frames[k].data = before[starts[k]].data
                /\ frames[k].display_time =
                      SumTimes(before, starts[k], RunEnd(before, starts[k]))
           /\ \A k \in 1..(Len(frames) - 1) : frames[k].data # frames[k + 1].data
           /\ before = <<Frame(<<"x">>, 1), Frame(<<"x">>, 2)>>
                => frames = <<Frame(<<"x">>, 3)>>

\* A run of two merged, and an identical frame that is not adjacent kept.
C10_Witness ==
    /\ compress_calls = 1
    /\ loaded_frames = <<Frame(<<"x">>, 1), Frame(<<"x">>, 2),
                         Frame(<<"y">>, 1), Frame(<<"x">>, 1)>>
    /\ frames = <<Frame(<<"x">>, 3), Frame(<<"y">>, 1), Frame(<<"x">>, 1)>>

(***************************************************************************)
(* Claims about one connection's session, checked under Spec.              *)
(***************************************************************************)
Question == "Are you a human? "
Welcome == "Whew. Ok. I thought you were a robot. Close one!"
Rejection == "Robots are not welcome! Get off my lawn!"

\* The positions of the handler inside a conversation.
DialoguePositions ==
    {"visitor_run", "resolve", "resolve_read", "resolved", "continue_ask",
     "continue_read", "adventure_run", "retry_ask", "retry_read", "parting_run"}

\* The place of a phase in the order the claim C1 states.
ClaimedRank(ph) ==
    CASE ph = "HumanCheck" -> 1
      [] ph = "VisitorDialogue" -> 2
      [] ph = "ScreenSizePriming" -> 3
      [] ph = "Playback" -> 4
      [] ph = "PartingDialogue" -> 5

\* C1 as stated: what a connection writes and waits for happens in the
\* order HumanCheck, VisitorDialogue, ScreenSizePriming, Playback,
\* PartingDialogue: nothing of a phase comes after something of a later
\* phase of that list, so the priming never comes before the visitor
\* dialogue.
C1_PhasesInClaimedOrder ==
    \A i \in 1..Len(io_log) : \A j \in i..Len(io_log) :
        ClaimedRank(io_log[i].phase) <= ClaimedRank(io_log[j].phase)

\* Two letters are the same when case is ignored: equal, or an upper-case
\* letter and its lower-case form.
SameIgnoringCase(c, d) ==
    \/ c = d
    \/ 65 <= c /\ c <= 90 /\ d = c + 32
    \/ 65 <= d /\ d <= 90 /\ c = d + 32

\* text contains one of the affirmative literals, case ignored.
Affirmative(text) ==
    \E lit \in {Str(<<"y", "e", "s">>), Str(<<"y", "e", "a">>),
                Str(<<"s", "i">>), Str(<<"y", "e", "p">>)} :
        \E o \in 0..(Len(text) - Len(lit)) :
            \A k \in 1..Len(lit) : SameIgnoringCase(text[o + k], lit[k])

\* The human check has read a reply and written its verdict.
HumanAnswered ==
    /\ phase = "HumanCheck"
    /\ Len(io_log) = 2
    /\ pc \in {"verify_return", "verify_raise", "done"}

HumanPassed == io_log[2].text = Welcome

\* The rejection's consequences: the rejection is written once, after the
\* one question, and it is the last thing of the session: no priming, no
\* dialogue, no playback.
RejectionEndsSession ==
    (\E i \in 1..Len(io_log) : io_log[i].text = Rejection)
        => /\ Len(io_log) = 2
           /\ io_log[1].text = Question
           /\ io_log[2].text = Rejection
           /\ phase = "HumanCheck"
           /\ pc \in {"verify_raise", "done"}
           /\ pc = "done" => outcome \in {"nonhuman", "peer_gone"}
           /\ notified = <<>>
           /\ conversation = ""
           /\ frame_pos = 0

\* The text of the whole line the visitor sent, however long.
ReplySent == PromptResult(rfile, Len(rfile))

\* C2 as stated: the check is passed exactly when the reply the visitor
\* sent contains an affirmative literal, case ignored; any other reply is
\* answered by the rejection, written once, and the session ends there.
C2_PassedIffSentReplyAffirmative ==
    /\ HumanAnswered => (HumanPassed <=> Affirmative(ReplySent))
    /\ HumanAnswered /\ ~HumanPassed => io_log[2].text = Rejection
    /\ RejectionEndsSession

\* C2 amended: the check is passed exactly when the reply as read, the text
\* of at most the first 20 bytes of the visitor's line, contains an
\* affirmative literal, case ignored; any other reply is answered by the
\* rejection, written once, and the session ends there.
C2_PassedIffReadReplyAffirmative ==
    /\ HumanAnswered => (HumanPassed <=> Affirmative(response))
    /\ HumanAnswered /\ ~HumanPassed => io_log[2].text = Rejection
    /\ RejectionEndsSession

\* A line whose "yes" lies beyond the 20th byte is rejected, and the
\* session is over.
C2_Witness ==
    /\ pc = "done"
    /\ outcome = "nonhuman"
    /\ rfile = LongHumanLine
    /\ Affirmative(ReplySent)
    /\ ~Affirmative(response)
    /\ io_log[2].text = Rejection
    /\ io_log[2].ok

\* A frame's write to the socket failed: the sink's signal that the peer is
\* gone.
FailedFrameWrite(e) ==
    e.phase = "Playback" /\ e.kind = "write" /\ e.text = "frame" /\ ~e.ok

CheckPrimingPlayback ==
    /\ io_log # <<>>
    /\ io_log[1].phase = "HumanCheck"
    /\ io_log[Len(io_log)].phase = "Playback"
    /\ \E i \in 1..Len(io_log) : io_log[i].phase = "ScreenSizePriming"
    /\ \A i \in 1..(Len(io_log) - 1) :
          <<io_log[i].phase, io_log[i + 1].phase>> \in
              {<<"HumanCheck", "HumanCheck">>, <<"HumanCheck", "ScreenSizePriming">>,
               <<"ScreenSizePriming", "ScreenSizePriming">>,
               <<"ScreenSizePriming", "Playback">>, <<"Playback", "Playback">>}

\* C8: without a dialogue configuration no conversation runs: nothing is
\* written or read for the visitor or the parting dialogue, nobody is
\* notified, and a session that completes went through the human check,
\* the priming and the playback, in this order, and nothing else.
C8_NoDialogueNoConversation ==
    dialogue_options = NoDialogue
        => /\ \A i \in 1..Len(io_log) :
                 io_log[i].phase \notin {"VisitorDialogue", "PartingDialogue"}
           /\ phase \notin {"VisitorDialogue", "PartingDialogue"}
           /\ pc \notin DialoguePositions
           /\ conversation = ""
           /\ answers = <<>>
           /\ notified = <<>>
           /\ outcome = "completed"
                 => CheckPrimingPlayback

\* A session without dialogue configuration that played the whole movie.
C8_Witness ==
    /\ dialogue_options = NoDialogue
    /\ pc = "done"
    /\ outcome = "completed"
    /\ frame_pos = Len(frames)
    /\ io_log[Len(io_log)].text = "CRLF"

(***************************************************************************)
(* Claims about Movie.load, checked under LoadSpec.                        *)
(***************************************************************************)
\* C11: a Movie is loaded at most once: a load() call on a Movie that a
\* load() has loaded returns False and leaves the frames, the frame and
\* screen dimensions and the margins as they are, whatever the file.
C11_LoadedOnce ==
    [][(loaded /\ load_calls' # load_calls)
          => /\ load_result' = "False"
             /\ frames' = frames
             /\ dimensions' = dimensions
             /\ loaded']_vars

\* A Movie loaded from a .yaml file, which set its dimensions, has refused
\* a later load().
C11_Witness ==
    /\ loaded
    /\ load_calls >= 2
    /\ load_result = "False"
    /\ frames # NewMovieFrames
    /\ dimensions # NewMovieDimensions

(***************************************************************************)
(* Claims about the dialogue engine, checked under DialogueSpec.           *)
(***************************************************************************)
\* The conversation that is run.
Root == dialogue_options.conversations.talk

\* A key of a response dict matches a reply, case ignored: "^lit" when the
\* reply begins with lit, "lit" when lit occurs in it.
KeyMatches(item, reply) ==
    \E o \in 0..(IF item.anchored THEN 0 ELSE Len(reply)) :
        /\ o + Len(item.literal) <= Len(reply)
        /\ \A k \in 1..Len(item.literal) :
              SameIgnoringCase(reply[o + k], item.literal[k])

\* The child the claim C12 gives a Prompt with a pattern mapping for a
\* reply: the value of the first key, in declaration order, that matches,
\* the default when none does.
FirstMatchOrDefault(p, reply) ==
    LET items == p.response.items
        hits == {i \in 1..Len(items) : KeyMatches(items[i], reply)}
    IN IF hits = {} THEN p.default
       ELSE items[CHOOSE i \in hits : \A j \in hits : i <= j].value

IsMappingPrompt(n) == n.type = "Prompt" /\ n.response.type = "dict"

\* The conversation's Prompt has been answered and nothing below it yet.
RootAnswered ==
    /\ pc \in {"resolve", "resolve_read", "resolved"}
    /\ Len(answers) = 1

\* C12: a Prompt with a pattern mapping resolves, for the reply it is
\* given, the value of the first pattern in declaration order that matches
\* the reply case-insensitively, and its default when no pattern matches;
\* the Prompt ^y -> Output("ok"), ^n -> Repeat, default Output("ok") given
\* "maybe" resolves to the trace {output: "ok"}.
C12_FirstMatchOrDefault ==
    /\ (RootAnswered /\ IsMappingPrompt(Root))
          => node = FirstMatchOrDefault(Root, answers[1].input)
    /\ (pc = "resolved" /\ Root = ExamplePrompt
            /\ answers[1].input = Str(<<"m", "a", "y", "b", "e">>))
          => results.resolved = [type |-> "dict", output |-> "ok"]

\* "no" matches both keys of the mapping ^n, o: the first one's value is
\* resolved.
C12_Witness ==
    /\ pc = "resolved"
    /\ Root = Prompt("continue?",
                     Dict(<<Item(TRUE, Str(<<"n">>), Output("bye")),
                            Item(FALSE, Str(<<"o">>), Output("ok"))>>),
                     None)
    /\ answers[1].input = Str(<<"n", "o">>)
    /\ results.resolved = [type |-> "dict", output |-> "bye"]

\* The entries of the log that ask a question.
IsAsk(e) == e.text \in {PromptText("continue?"), PromptText("outer?")}

\* C13: a Repeat asks the same Prompt again with the same question and
\* restarts nothing above it: the askings of one question stand together in
\* the log, the conversation's first Prompt is the first one asked, an
\* output is only ever the last entry, every asking is one that was
\* answered for good, one that was repeated, or the one that waits for its
\* reply, and what a conversation resolves to is never a Repeat.
C13_RepeatAsksSamePrompt ==
    /\ \A i \in 1..Len(io_log) : \A j \in i..Len(io_log) :
          io_log[i].text = io_log[j].text
              => \A k \in i..j : io_log[k].text = io_log[i].text
    /\ (io_log # <<>> /\ Root.type = "Prompt")
          => io_log[1].text = PromptText(Root.prompt)
    /\ \A i \in 1..(Len(io_log) - 1) : IsAsk(io_log[i])
    /\ pc = "resolve_read"
          => io_log[Len(io_log)].text = PromptText(node.prompt)
    /\ Cardinality({i \in 1..Len(io_log) : IsAsk(io_log[i])})
          = Len(answers) + repeats + (IF pc = "resolve_read" THEN 1 ELSE 0)
    /\ pc = "resolved" => node # Repeat

\* The inner Prompt of a nested conversation was repeated and then
\* answered: the outer one was asked once, the inner one twice in a row.
C13_Witness ==
    /\ pc = "resolved"
    /\ repeats = 1
    /\ Len(answers) = 2
    /\ Len(io_log) = 3
    /\ io_log[1].text = PromptText("outer?")
    /\ io_log[2].text = PromptText("continue?")
    /\ io_log[3].text = PromptText("continue?")

\* C14: a Prompt whose mapping has no pattern that matches the reply and
\* which has no default resolves to the trace with the null resolution,
\* raises nothing, and the output function is not called.
C14_NoMatchNoDefault ==
    (Len(answers) = 1 /\ IsMappingPrompt(Root) /\ Root.default = None
        /\ \A i \in 1..Len(Root.response.items) :
              ~KeyMatches(Root.response.items[i], answers[1].input))
      => /\ node = None
         /\ outcome = ""
         /\ \A i \in 1..Len(io_log) : io_log[i].text = PromptText(Root.prompt)
         /\ pc = "resolved"
              => results = [type |-> "dict", prompt |-> Root.prompt,
                            input |-> answers[1].input, resolved |-> None]

\* The mapping ^y, ^n without default was given "maybe".
C14_Witness ==
    /\ pc = "resolved"
    /\ IsMappingPrompt(Root)
    /\ Len(Root.response.items) = 2
    /\ Root.default = None
    /\ answers = <<[prompt |-> "continue?", input |-> Str(<<"m", "a", "y", "b", "e">>)]>>
    /\ results.resolved = None
    /\ Len(io_log) = 1

\* What lies k levels down in a trace.
RECURSIVE Level(_, _)
Level(t, k) == IF k = 0 THEN t ELSE Level(t.resolved, k - 1)

\* The k-th Prompt on the way the recorded replies take from the root.
RECURSIVE PathNode(_)
PathNode(k) ==
    IF k = 1 THEN Root
    ELSE LET p == PathNode(k - 1)
         IN IF IsMappingPrompt(p)
              THEN FirstMatchOrDefault(p, answers[k - 1].input)
            ELSE IF p.response.type \in {"str", "Output", "Prompt"} THEN p.response
            ELSE p.default

\* The trace of a resolved conversation: a {prompt, input, resolved} per
\* Prompt traversed, as deep as Prompts were traversed, and at the bottom
\* {output: text} for an Output and the value itself for any other value.
TraceShape ==
    /\ \A k \in 1..Len(answers) :
          /\ Level(results, k - 1).type = "dict"
          /\ DOMAIN Level(results, k - 1) = {"type", "prompt", "input", "resolved"}
          /\ Level(results, k - 1).prompt = PathNode(k).prompt
          /\ Level(results, k - 1).input = answers[k].input
    /\ Len(answers) = Cardinality({io_log[i].text : i \in
                          {j \in 1..Len(io_log) : IsAsk(io_log[j])}})
    /\ LET leaf == Level(results, Len(answers))
           last == PathNode(Len(answers) + 1)
       IN IF last.type = "Output"
            THEN leaf = [type |-> "dict", output |-> last.output_text]
            ELSE leaf = last

OutputCalls == {i \in 1..Len(io_log) : ~IsAsk(io_log[i])}

\* C15 as stated: the trace has that shape, and an Output was handed to the
\* output function exactly once, as its text.
C15_TraceShapeOutputAsText ==
    pc = "resolved"
      => /\ TraceShape
         /\ IF node.type = "Output"
              THEN /\ Cardinality(OutputCalls) = 1
                   /\ io_log[Len(io_log)].text = node.output_text
              ELSE OutputCalls = {}

\* C15 amended: the trace has that shape, and an Output was handed to the
\* output function exactly once, as a line break followed by its text.
C15_TraceShapeOutputAfterLineBreak ==
    pc = "resolved"
      => /\ TraceShape
         /\ IF node.type = "Output"
              THEN /\ Cardinality(OutputCalls) = 1
                   /\ io_log[Len(io_log)].text = "\n" \o node.output_text
              ELSE OutputCalls = {}

\* Two Prompts were traversed and the second one resolved to an Output.
C15_Witness ==
    /\ pc = "resolved"
    /\ Len(answers) = 2
    /\ results.resolved.resolved = [type |-> "dict", output |-> "ok"]
    /\ io_log[Len(io_log)].text = "\nok"

(***************************************************************************)
(* Claims about the configuration, checked under Spec.                     *)
(***************************************************************************)
\* C16 as stated: a conversation name the Dialogue does not define is found
\* before a connection is served: no connection's handler ever meets the
\* KeyError of the lookup.
C16_UnknownNameNeverMeetsConnection ==
    outcome # "KeyError"


(***************************************************************************)
(* Paging of long text.                                                    *)
(***************************************************************************)
\* output() went into _output_long_text.
Paged == lines # <<>>

\* The call of output() has decided how to write its text.
OutputDecided == pager_pc \in {"window", "scroll", "done"}

\* The lines the wrapped text takes on the screen: wrapped_lines of line 161.
OccupiedLines == Len(WrappedLines(SplitLines(out_text)))

\* The windows and the prompts of the pager, as positions of `written`.
IsWindow(i) == written[i].kind = "window"
IsScrollPrompt(i) == written[i].kind = "prompt"
ScrollPrompts == Cardinality({i \in 1..Len(written) : IsScrollPrompt(i)})
AnsweredBottom(i) == Contains(Str(<<"b", "o", "t", "t", "o", "m">>), written[i].text)

\* C17: a text whose wrapped lines are more than the screen height is paged,
\* whether or not a line break is ensured at its end.
C17_LongTextIsPaged ==
    (OutputDecided /\ OccupiedLines > dimensions.screen_height) => Paged

\* C18: every window written holds exactly screen_height - 4 lines; an answer
\* other than 'bottom' moves the window down by one line, and the answer
\* 'bottom' makes it the last screen_height - 4 lines.
C18_WindowsOfWindowSize ==
    /\ \A i \in 1..Len(written) :
          IsWindow(i) => Len(written[i].text) = WindowSize
    /\ \A i \in 2..(Len(written) - 1) :
          IsScrollPrompt(i) =>
            IF AnsweredBottom(i)
              THEN written[i + 1].text =
                     SubSeq(lines, Len(lines) - WindowSize + 1, Len(lines))
              ELSE /\ Tail(written[i - 1].text) =
                        SubSeq(written[i + 1].text, 1, Len(written[i + 1].text) - 1)
                   /\ Len(written[i + 1].text) = Len(written[i - 1].text)

\* C19, the state part: the scroll prompts are at most the number of the
\* pager's lines less the window size; paging is over exactly when the
\* window of the last line is written; the last window ends with the last
\* line.
PagingBounded ==
    Paged =>
      /\ ScrollPrompts <= Len(lines) - WindowSize
      /\ pager_pc = "done" <=>
            (current_index = Len(lines) - 1 /\ written # <<>> /\ IsWindow(Len(written)))
      /\ pager_pc = "scroll" => current_index < Len(lines) - 1
      /\ pager_pc = "done" =>
            LET last == written[Len(written)].text
            IN last # <<>> /\ last[Len(last)] = lines[Len(lines)]

\* C19: whatever the visitor answers, paging ends; it ends exactly when
\* current_index reaches the last line, after at most (lines - window size)
\* scroll prompts, and the last window ends with the last line.
C19_PagingTerminates == [](PagingBounded) /\ <>(pager_pc = "done")

\* C19 witness: a paged text scrolled line by line to its end, with as many
\* prompts as the bound allows.
C19_Witness ==
    /\ Paged
    /\ pager_pc = "done"
    /\ ScrollPrompts = Len(lines) - WindowSize
    /\ ScrollPrompts >= 2

(***************************************************************************)
(* The time bar's marker.                                                  *)
(***************************************************************************)
\* C20: over the frame numbers from 0 to duration the index the marker is
\* drawn at never goes down, and it is never above internal_length - 1.
C20_MarkerMonotoneAndInside ==
    /\ \A i \in 1..Len(marker_log) : \A j \in i..Len(marker_log) :
          marker_log[i].marker_pos <= marker_log[j].marker_pos
    /\ \A i \in 1..Len(marker_log) :
          marker_log[i].marker_pos <= time_bar.internal_length - 1

\* C20 witness: every frame number from 0 to duration has been drawn, the
\* marker has moved, and at the last one get_marker_postion gave
\* internal_length.
C20_Witness ==
    /\ Len(marker_log) = time_bar.duration + 1
    /\ marker_log[Len(marker_log)].frame_num = time_bar.duration
    /\ marker_log[Len(marker_log)].position = time_bar.internal_length
    /\ marker_log[1].marker_pos < marker_log[Len(marker_log)].marker_pos

\* The whole of `piece` is the beginning, the end of `s`.
StartsWith(s, piece) == Len(piece) <= Len(s) /\ SubSeq(s, 1, Len(piece)) = piece
EndsWithWhole(s, piece) ==
    Len(piece) <= Len(s) /\ SubSeq(s, Len(s) - Len(piece) + 1, Len(s)) = piece

\* C21: whatever the decorators, the bar returned for a frame number in
\* 0..duration has `length` characters, begins with the whole left decorator
\* and ends with the whole right decorator.
C21_BarKeepsDecorators ==
    \A i \in 1..Len(marker_log) :
      /\ Len(marker_log[i].timebar) = time_bar.length
      /\ StartsWith(marker_log[i].timebar, time_bar.left_decorator)
      /\ EndsWithWhole(marker_log[i].timebar, time_bar.right_decorator)

(***************************************************************************)
(* Subtitles.                                                              *)
(***************************************************************************)
\* C22: a line with a 'SECONDS|' prefix is given those seconds and a line
\* without one the default seconds-per-slide, whatever prefixes the lines
\* before it had; the line is added to frames until their display time
\* reaches the seconds it was given.
C22_PrefixForItsLineOnly ==
    \A i \in 1..Len(splice_log) :
      LET line == subtitles[splice_log[i].line]
          given == IF line.bars = 1 THEN line.seconds ELSE seconds_per_slide
      IN /\ splice_log[i].seconds = given
         /\ (splice_error = "" \/ i < Len(splice_log)) =>
               /\ splice_log[i].ticks >= DISPLAY_PER_SECONDS * given
               /\ splice_log[i].taken > 0 =>
                     splice_log[i].ticks - frames[splice_log[i].first
                                                    + splice_log[i].taken - 1].display_time
                       <= DISPLAY_PER_SECONDS * given

\* C22 witness: a line with a prefix other than the default was spliced,
\* and the line after it, without a prefix, got the default.
C22_Witness ==
    /\ splice_error = ""
    /\ Len(splice_log) >= 2
    /\ subtitles[1].bars = 1
    /\ subtitles[1].seconds # seconds_per_slide
    /\ subtitles[1].seconds > 0
    /\ subtitles[2].bars = 0
    /\ splice_log[2].seconds = seconds_per_slide
    /\ splice_log[2].taken > 0

(***************************************************************************)
(* Several connections.                                                    *)
(***************************************************************************)
\* C23: no step of a handler changes the movie or the dialogue of the
\* class, and a step that changes one connection's handler (its phase, its
\* output, its end) leaves every other connection's handler as it was.
C23_NoCrossWorkerWrites ==
    [][/\ frames' = frames
       /\ dimensions' = dimensions
       /\ dialogue_options' = dialogue_options
       /\ \A w \in Workers :
            workers'[w] # workers[w] =>
              \A v \in Workers \ {w} : workers'[v] = workers[v]]_vars

\* C23 witness: w1 still waits in its first read with only the question
\* written, while w2 has been turned away, and while w2 has lost its peer
\* after the priming.
C23_Witness ==
    /\ workers["w1"].pc = "verify_read"
    /\ workers["w1"].output = <<"HumanCheck">>
    /\ workers["w2"].pc = "done"
    /\ workers["w2"].outcome = "peer_gone"
    /\ workers["w2"].phase = "Playback"

(***************************************************************************)
(* Claims about the retry of the adventure, checked under Spec.            *)
(***************************************************************************)
\* C24 as stated: within one session a conversation is run at most twice,
\* whatever the visitor answers to the retry question: run_adventure's loop
\* begins at most two iterations.
C24_ConversationRunAtMostTwice == adventure_runs <= 2

(***************************************************************************)
(* Claims about the screen-size priming, checked under Spec.               *)
(***************************************************************************)
IsBoxEntry(e) == e.kind = "write" /\ e.text = "screen_box"

IsCountdownSleep(e) == e.kind = "sleep" /\ e.text = "sleep(1)"

\* The seconds 15, 14, ..., 1.
Countdown == [i \in 1..CountdownFrom |-> CountdownFrom + 1 - i]

\* C28: in every session that has reached playback the box was written
\* once for each second 15, 14, ..., 1, in that order and each time to a
\* peer that was there, a second was waited after each, and all of it
\* happened before anything of the playback, whatever the visitor sent.
C28_WholeCountdownBeforePlayback ==
    phase = "Playback" =>
        LET boxes == SelectSeq(io_log, IsBoxEntry)
            counted == {k \in 1..Len(io_log) :
                          IsBoxEntry(io_log[k]) \/ IsCountdownSleep(io_log[k])}
            played == {k \in 1..Len(io_log) : io_log[k].phase = "Playback"}
        IN /\ [i \in 1..Len(boxes) |-> boxes[i].n] = Countdown
           /\ \A i \in 1..Len(boxes) :
                 boxes[i].ok /\ boxes[i].phase = "ScreenSizePriming"
           /\ Len(SelectSeq(io_log, IsCountdownSleep)) = CountdownFrom
           /\ \A j \in played : \A i \in counted : i < j

C28_Witness ==
    /\ phase = "Playback"
    /\ pc = "play_wait"
    /\ Truthy(dialogue_options)
    /\ Len(SelectSeq(io_log, IsBoxEntry)) = CountdownFrom

(***************************************************************************)
(* Claims about a Prompt whose response is no mapping, checked under       *)
(* DialogueSpec.                                                           *)
(***************************************************************************)
\* The conversation is a Prompt whose response is one node or one str.
HasSingleResponse(p) == p.type = "Prompt" /\ p.response.type # "dict"

\* The output function was not called: the log holds the question only.
OnlyAsked == Len(io_log) = 1 /\ io_log[1].text = PromptText(Root.prompt)

\* C29 as stated: a Prompt whose response is a single node or a str gives
\* that value for every reply, whatever its default is, and a str is what
\* the conversation resolves to, with no call of the output function.
C29_SingleResponseForEveryReply ==
    /\ (RootAnswered /\ HasSingleResponse(Root)) => node = Root.response
    /\ (pc = "resolved" /\ HasSingleResponse(Root) /\ Root.response.type = "str")
          => results.resolved = Root.response /\ OnlyAsked

\* C29 amended: a Prompt whose response is a single Output, a single Prompt
\* or a str gives that value for every reply, whatever its default is, and
\* a str is what the conversation resolves to, with no call of the output
\* function; a Prompt whose response is a single Repeat gives its default
\* for every reply.
C29_SingleOutputPromptOrStrForEveryReply ==
    /\ (RootAnswered /\ HasSingleResponse(Root))
          => node = IF Root.response.type \in {"str", "Output", "Prompt"}
                      THEN Root.response ELSE Root.default
    /\ (pc = "resolved" /\ HasSingleResponse(Root) /\ Root.response.type = "str")
          => results.resolved = Root.response /\ OnlyAsked

\* The str "done" is the response and Output("bye") the default: the
\* conversation has resolved to "done" and nothing was written but the
\* question.
C29_Witness ==
    /\ pc = "resolved"
    /\ Root = Prompt("continue?", StrValue("done"), Output("bye"))
    /\ results.resolved = StrValue("done")
    /\ OnlyAsked

(***************************************************************************)
(* Claims about the sizes of a Movie, checked under DimensionsSpec.        *)
(***************************************************************************)
\* What the claim C31 says of the sizes after a call whose height is not
\* negative; the frame size is the one of the latest call.
DimensionsFit ==
    dimensions.frame_height >= 0 =>
        /\ dimensions.screen_width >= dimensions.frame_width
        /\ dimensions.screen_height = dimensions.frame_height + TimeBarHeight
        /\ dimensions.left_margin
              = (dimensions.screen_width - dimensions.frame_width) \div 2
        /\ dimensions.left_margin >= 0
        /\ dimensions.top_margin = 0

\* C31: after every call set_frame_dimensions(width, height) with a height
\* that is not negative the screen is at least as wide as the frame, the
\* screen height is height + TimeBar.height whatever it was before, the
\* left margin is half the spare width, rounded down and not negative, and
\* the top margin is 0; no call makes the screen narrower.
C31_FrameDimensionsFitScreen ==
    /\ [](DimensionsFit)
    /\ [][dimensions'.screen_width >= dimensions.screen_width]_vars

\* A screen configured 80 wide and 24 high that a call has widened to 82,
\* after a later call with a frame 81 wide and 0 high.
C31_Witness ==
    /\ dimensions.screen_width = DefaultWidth + MaxWiden
    /\ dimensions.frame_width = DefaultWidth + 1
    /\ dimensions.frame_height = 0
    /\ dimensions.screen_height = TimeBarHeight
    /\ dimensions.left_margin = 0

====
